---- MODULE Spec2Model ----
(***************************************************************************)
(* A model of dogbot's moderator log (dog/ext/modlog.py): the debounce     *)
(* lists, the event handlers cut at their suspension points (every await), *)
(* the audit-log lookup and the amendment of a sent log message; and of    *)
(* its join screening (dog/ext/gatekeeper.py): the checks, the handler of  *)
(* a member join cut at its awaits, and the commands that write its keys.  *)
(*                                                                         *)
(* Time is counted in deciseconds (0.1 s).  A log message body is a        *)
(* sequence of tokens: describe(x) is the token naming x, a fixed piece of *)
(* a template is one token, a message's content is a sequence of           *)
(* characters.                                                             *)
(***************************************************************************)
EXTENDS Integers, Sequences, FiniteSets, TLC

VARIABLES
    now,                \* datetime.datetime.utcnow(), in deciseconds
    ban_debounces,      \* Modlog.ban_debounces: list of user IDs
    bulk_deletes,       \* Modlog.bulk_deletes: list of message IDs
    censored_messages,  \* Modlog.censored_messages: list of message IDs
    autorole_debounces, \* Modlog.autorole_debounces: dict member ID -> role IDs
    tasks,              \* the handler invocations, in arrival order
    modlog,             \* per guild, the messages sent to its modlog channel
    audit,              \* per guild, Discord's audit log, newest entry first
    member,             \* the <<guild, user>> pairs that are memberships
    banned,             \* the <<guild, user>> pairs that are bans
    config,             \* the <<guild, flag>> pairs the config store has set
    redis,              \* bot.redis: dict <<guild, key>> -> stored value
    gatekeeper          \* the invocations of the Gatekeeper cog, in arrival order

vars == <<now, ban_debounces, bulk_deletes, censored_messages,
          autorole_debounces, tasks, modlog, audit, member, banned, config, redis, gatekeeper>>

----------------------------------------------------------------------------
(* The world: guilds, users, moderators, roles.                            *)

Guilds == {"g1", "g2"}
Users == {"u1", "u2"}
Moderators == {"mod"}
NoReason == ""
Reasons == {NoReason, "spam"}

(* Bounds of the model. *)
MaxTime == 40
MaxAudit == 2
MaxEvents == 3
MaxEntries == 2
MaxAttributions == 2
MaxMessageEvents == 2
MaxHandled == 2
MaxCommands == 2
MaxOverwrites == 2
MaxLen == 2
MaxDiffs == 1
MaxStale == 4
MaxRoleEvents == 3
MaxGate == 2

(* Program constants, in deciseconds. *)
AuditWindow == 20
BounceWindow == 15000
NewWindow == 6048000

(* member.joined_at: u1 joined 1499 s before the model's time 0, u2 long ago. *)
JoinedAt(u) == IF u = "u1" THEN 0 - 14990 ELSE 0 - 90000

(* member.created_at: the account of u2 is 7 days old at the model's time   *)
(* 0, the account of u1 is 2000 s old.                                     *)
CreatedAt(u) == IF u = "u2" THEN 0 - NewWindow ELSE 0 - 20000

----------------------------------------------------------------------------
(* Sequence helpers standing for Python's list operations.                 *)

\* x in lst
In(x, lst) == \E i \in 1..Len(lst) : lst[i] = x

\* lst.count(x)
Count(x, lst) == Cardinality({i \in 1..Len(lst) : lst[i] = x})

\* the list without its element at index i
RemoveAt(lst, i) == SubSeq(lst, 1, i - 1) \o SubSeq(lst, i + 1, Len(lst))

\* lst.remove(x): drops the first occurrence of x (x is in lst)
ListRemove(lst, x) ==
    RemoveAt(lst, CHOOSE i \in 1..Len(lst) :
                    lst[i] = x /\ \A j \in 1..(i - 1) : lst[j] # x)

----------------------------------------------------------------------------
(* Formatting (dog/core/utils/formatting.py and modlog.py).                *)

\* two decimal digits, as the format spec 02d prints them
Pad2(n) == IF n < 10 THEN "0" \o ToString(n) ELSE ToString(n)

\* modlog_msg: the hour and minute of utcnow(), then the message
modlog_msg(msg, t) ==
    <<"[" \o Pad2((t \div 36000) % 24) \o ":" \o Pad2((t \div 600) % 60) \o "]">> \o msg

\* describe(thing, before=..., created=..., joined=...); is_member says
\* whether thing is a discord.Member
describe(thing, before, created, joined, is_member) ==
    <<thing>> \o before
              \o (IF created THEN <<"created">> ELSE <<>>)
              \o (IF joined /\ is_member THEN <<"joined">> ELSE <<>>)

\* format_member_departure(member, verb=..., emoji=...), called at time t
format_member_departure(who, is_member, verb, emoji, t) ==
    IF ~is_member
    THEN <<emoji>> \o describe(who, verb, TRUE, FALSE, FALSE)
    ELSE LET bounce == IF t - JoinedAt(who) <= BounceWindow
                       THEN <<"BASKETBALL">> ELSE <<>>
         IN  <<emoji>> \o bounce \o describe(who, verb, TRUE, TRUE, TRUE)

\* format_reason(entry)
format_reason(entry) ==
    IF entry.reason # NoReason THEN <<"with reason", entry.reason>>
    ELSE <<"with no attached reason">>

----------------------------------------------------------------------------
(* The audit log and get_responsible.                                      *)

AuditActions == {"ban", "unban", "kick", "member_role_update"}

AuditEntry(action, target, user, reason, t) ==
    [action |-> action, target |-> target, user |-> user,
     reason |-> reason, created_at |-> t]

\* what get_responsible gives when it finds nothing (Python's None)
None == AuditEntry("None", "", "", NoReason, 0)
\* get_responsible left by an exception it does not catch
Raise == AuditEntry("Raise", "", "", NoReason, 0)

\* the entries of one action, newest first
RECURSIVE OfAction(_, _)
OfAction(entries, action) ==
    IF entries = <<>> THEN <<>>
    ELSE (IF Head(entries).action = action THEN <<Head(entries)>> ELSE <<>>)
         \o OfAction(Tail(entries), action)

\* guild.audit_logs(limit=limit, action=action).flatten()
audit_logs(entries, action, limit) ==
    LET found == OfAction(entries, action)
    IN  SubSeq(found, 1, IF Len(found) < limit THEN Len(found) ELSE limit)

\* (mutant) the check with its window a tenth of a second too wide
check_wide(entry, target, t) ==
    entry.target = target /\ t - entry.created_at <= AuditWindow + 1

\* the check of get_responsible: performed on target, in the last 2 seconds
check(entry, target, t) ==
    entry.target = target /\ t - entry.created_at <= AuditWindow

\* discord.utils.find(check, entries)
RECURSIVE find(_, _, _)
find(entries, target, t) ==
    IF entries = <<>> THEN None
    ELSE IF check(Head(entries), target, t) THEN Head(entries)
    ELSE find(Tail(entries), target, t)

\* (mutant) get_responsible without its except clause
get_responsible_uncaught(response, target, t) ==
    IF response.error # "" THEN Raise
    ELSE find(response.entries, target, t)

\* get_responsible, given what the audit-log request came back with:
\* response.error is "" and response.entries the entries, or response.error
\* names the exception the request raised
get_responsible(response, target, t) ==
    IF response.error = "Forbidden" THEN None
    ELSE IF response.error # "" THEN Raise
    ELSE find(response.entries, target, t)

----------------------------------------------------------------------------
(* Handler invocations.  A task is one invocation of an event handler; pc  *)
(* is the await it is suspended at: "send" (send_modlog), "query"          *)
(* (audit_logs), "edit" (Message.edit), "sleep" (asyncio.sleep), or how it *)
(* ended: "done", "suppressed" (a debounce made it return), "skipped" (a   *)
(* guard made it return), "failed" (an exception left the handler).        *)

\* lookups: the flags the handler asked the config store for, in order
\* changed: the attributes of the member an update event changed
NoArg == [is_member |-> FALSE, before |-> <<>>, after |-> <<>>,
          added |-> <<>>, removed |-> <<>>, lookups |-> <<>>, changed |-> {}]

\* (mutant) only the calls of log() that have returned are counted
Emitted_stalled == Cardinality({i \in 1..Len(tasks) : tasks[i].msg # 0})

\* how many handlers have called log() so far
Emitted == Cardinality({i \in 1..Len(tasks) : tasks[i].seq # 0})

\* kind: the handler; subject: the user or message it is about; body: the
\* content handed to the pending send or edit; msg: the index, in the
\* guild's modlog, of the message log() returned (0: none); qres: what the
\* audit-log request came back with; seq: the handler's call of log() was
\* the seq-th of all calls (0: it has not called log)
NewTask(kind, guild, subject, pc, body, arg) ==
    [kind |-> kind, guild |-> guild, subject |-> subject, pc |-> pc,
     body |-> body, msg |-> 0, qres |-> "", arg |-> arg,
     seq |-> IF pc = "send" THEN Emitted + 1 ELSE 0]

\* a message of a modlog channel: its content, and for the record the
\* content it was sent with, how often it was edited, and the tasks that
\* sent and edited it
NewMessage(content, sender) ==
    [content |-> content, original |-> content, edits |-> 0,
     sender |-> sender, editor |-> 0]

Ended(t) == t.pc \in {"done", "suppressed", "skipped", "failed"}

\* (mutant) on_member_join goes on to autoformat_responsible too
Attributed_with_join == {"ban", "unban", "remove", "roles", "join"}

\* the handlers that go on to autoformat_responsible, and the audit-log
\* action each asks for
Attributed == {"ban", "unban", "remove", "roles"}
ActionOf(kind) ==
    CASE kind = "ban" -> "ban"
      [] kind = "unban" -> "unban"
      [] kind = "remove" -> "kick"
      [] kind = "roles" -> "member_role_update"

----------------------------------------------------------------------------
(* Departures: on_member_ban, on_member_unban, on_member_remove.           *)

\* (mutant) every debounce of the user is taken out of the list
ConsumeBan_all(lst, u) == SelectSeq(lst, LAMBDA x : x # u)

\* (mutant) the debounce is left in the list
ConsumeBan_kept(lst, u) == lst

\* self.ban_debounces.remove(member.id)
ConsumeBan(lst, u) == ListRemove(lst, u)

\* on_member_ban up to its first await: register the debounce, format the
\* departure, call log().  user is a Member if the guild still holds it.
on_member_ban(g, u) ==
    /\ <<g, u>> \notin banned
    /\ banned' = banned \cup {<<g, u>>}
    /\ ban_debounces' = Append(ban_debounces, u)
    /\ LET is_member == <<g, u>> \in member
           text == format_member_departure(u, is_member, <<"was banned">>, "HAMMER", now)
       IN  tasks' = Append(tasks, NewTask("ban", g, u, "send", modlog_msg(text, now),
                                          [NoArg EXCEPT !.is_member = is_member]))
    /\ UNCHANGED <<now, bulk_deletes, censored_messages, autorole_debounces,
                   modlog, audit, member, config, redis, gatekeeper>>

\* on_member_unban up to its first await
on_member_unban(g, u) ==
    /\ <<g, u>> \in banned
    /\ banned' = banned \ {<<g, u>>}
    /\ LET base_msg == <<"HAMMER">> \o describe(u, <<>>, FALSE, FALSE, FALSE)
                                    \o <<"was unbanned">>
       IN  tasks' = Append(tasks, NewTask("unban", g, u, "send",
                                          modlog_msg(base_msg \o <<".">>, now), NoArg))
    /\ UNCHANGED <<now, ban_debounces, bulk_deletes, censored_messages,
                   autorole_debounces, modlog, audit, member, config, redis, gatekeeper>>

\* on_member_remove up to its first await: bail if this user is in the ban
\* debounces (and take the user out of them), else log the departure
on_member_remove(g, u) ==
    /\ <<g, u>> \in member
    /\ member' = member \ {<<g, u>>}
    /\ IF In(u, ban_debounces)
       THEN /\ ban_debounces' = ConsumeBan(ban_debounces, u)
            /\ tasks' = Append(tasks, NewTask("remove", g, u, "suppressed", <<>>,
                                              [NoArg EXCEPT !.is_member = TRUE]))
       ELSE /\ ban_debounces' = ban_debounces
            /\ LET text == format_member_departure(u, TRUE, <<"left">>, "OUTBOX TRAY", now)
               IN  tasks' = Append(tasks, NewTask("remove", g, u, "send",
                                                  modlog_msg(text, now),
                                                  [NoArg EXCEPT !.is_member = TRUE]))
    /\ UNCHANGED <<now, bulk_deletes, censored_messages, autorole_debounces,
                   modlog, audit, banned, config, redis, gatekeeper>>

----------------------------------------------------------------------------
(* log and autoformat_responsible.                                         *)

\* the formatter on_member_unban hands to autoformat_responsible
unban_formatter(u, entry) ==
    <<"HAMMER">> \o describe(u, <<>>, FALSE, FALSE, FALSE) \o <<"was unbanned">>
        \o <<"by">> \o describe(entry.user, <<>>, FALSE, FALSE, FALSE)
        \o format_reason(entry) \o <<".">>

\* describe_differences(bot, added, removed)
describe_differences(added, removed) ==
    [i \in 1..(2 * Len(added)) |->
        IF i % 2 = 1 THEN "green_tick" ELSE added[i \div 2]]
    \o [i \in 1..(2 * Len(removed)) |->
        IF i % 2 = 1 THEN "red_tick" ELSE removed[i \div 2]]

\* fmt_before of on_member_update
fmt_before(u) ==
    <<"KEY", "Roles for">> \o describe(u, <<>>, FALSE, FALSE, FALSE) \o <<"were updated">>

\* the formatter on_member_update hands to autoformat_responsible
update_formatter(u, added, removed, entry) ==
    fmt_before(u) \o <<"by">> \o describe(entry.user, <<>>, FALSE, FALSE, FALSE)
                  \o <<":">> \o describe_differences(added, removed)

\* the departure branch of autoformat_responsible
departure_content(who, is_member, departure_extra, departure_emoji, entry, t) ==
    LET verb == <<departure_extra, "by">>
                \o describe(entry.user, <<>>, FALSE, FALSE, FALSE)
                \o format_reason(entry)
    IN  modlog_msg(format_member_departure(who, is_member, verb, departure_emoji, t), t)

\* the new content autoformat_responsible edits the log message to
amended_content(task, entry, t) ==
    CASE task.kind = "ban" ->
            departure_content(task.subject, task.arg.is_member, "was banned", "HAMMER", entry, t)
      [] task.kind = "remove" ->
            departure_content(task.subject, TRUE, "was kicked", "WOMANS BOOTS", entry, t)
      [] task.kind = "unban" ->
            modlog_msg(unban_formatter(task.subject, entry), t)
      [] task.kind = "roles" ->
            modlog_msg(update_formatter(task.subject, task.arg.added, task.arg.removed, entry), t)

\* log() returns: the message is in the modlog channel, or there is no
\* message (send_modlog gave None).  A handler that calls
\* autoformat_responsible goes on to ask for the audit log (unless it has
\* no log message to edit); any other handler is done.
log(i, sent) ==
    /\ i \in 1..Len(tasks)
    /\ tasks[i].pc = "send"
    /\ LET t == tasks[i]
            g == t.guild
            at == IF sent THEN Len(modlog[g]) + 1 ELSE 0
        IN  /\ modlog' = IF sent
                         THEN [modlog EXCEPT ![g] = Append(@, NewMessage(t.body, i))]
                         ELSE modlog
            /\ tasks' = [tasks EXCEPT ![i].msg = at,
                                      ![i].pc = IF t.kind \in Attributed /\ at # 0
                                                THEN "query" ELSE "done"]
    /\ UNCHANGED <<now, ban_debounces, bulk_deletes, censored_messages,
                   autorole_debounces, audit, member, banned, config, redis, gatekeeper>>

\* (mutant) autoformat_responsible asks again when nothing was found
audit_returns_retry(i, error) ==
    /\ i \in 1..Len(tasks)
    /\ tasks[i].pc = "query"
    /\ LET t == tasks[i]
            response == [error |-> error,
                         entries |-> IF error = ""
                                     THEN audit_logs(audit[t.guild], ActionOf(t.kind), 1)
                                     ELSE <<>>]
            entry == get_responsible(response, t.subject, now)
        IN  tasks' = [tasks EXCEPT
                        ![i].qres = IF error # "" THEN error
                                    ELSE IF entry = None THEN "absent" ELSE "found",
                        ![i].pc = IF entry = Raise THEN "failed"
                                  ELSE IF entry = None THEN "query" ELSE "edit",
                        ![i].body = IF entry \in {Raise, None} THEN @
                                    ELSE amended_content(t, entry, now)]
    /\ UNCHANGED <<now, ban_debounces, bulk_deletes, censored_messages,
                   autorole_debounces, modlog, audit, member, banned, config, redis, gatekeeper>>

\* the audit-log request of get_responsible returns (or raises), and
\* autoformat_responsible goes on: nothing found ends it, an entry found
\* makes it call Message.edit
audit_returns(i, error) ==
    /\ i \in 1..Len(tasks)
    /\ tasks[i].pc = "query"
    /\ LET t == tasks[i]
            response == [error |-> error,
                         entries |-> IF error = "" 
                                     THEN audit_logs(audit[t.guild], ActionOf(t.kind), 1)
                                     ELSE <<>>]
            entry == get_responsible(response, t.subject, now)
        IN  tasks' = [tasks EXCEPT
                        ![i].qres = IF error # "" THEN error
                                    ELSE IF entry = None THEN "absent" ELSE "found",
                        ![i].pc = IF entry = Raise THEN "failed"
                                  ELSE IF entry = None THEN "done" ELSE "edit",
                        ![i].body = IF entry \in {Raise, None} THEN @
                                    ELSE amended_content(t, entry, now)]
    /\ UNCHANGED <<now, ban_debounces, bulk_deletes, censored_messages,
                   autorole_debounces, modlog, audit, member, banned, config, redis, gatekeeper>>

\* (mutant) the newest message of the modlog channel is edited
edited_message_newest(t) == Len(modlog[t.guild])

\* the message autoformat_responsible edits: the log_message it was given
edited_message(t) == t.msg

\* log_message.edit returns, or raises (the message is gone, the request
\* failed): nothing in autoformat_responsible or the handler catches it
edit_returns(i, ok) ==
    /\ i \in 1..Len(tasks)
    /\ tasks[i].pc = "edit"
    /\ LET t == tasks[i]
            g == t.guild
            k == edited_message(t)
        IN  /\ modlog' = IF ok
                         THEN [modlog EXCEPT ![g][k].content = t.body,
                                             ![g][k].edits = @ + 1,
                                             ![g][k].editor = i]
                         ELSE modlog
            /\ tasks' = [tasks EXCEPT ![i].pc = IF ok THEN "done" ELSE "failed"]
    /\ UNCHANGED <<now, ban_debounces, bulk_deletes, censored_messages,
                   autorole_debounces, audit, member, banned, config, redis, gatekeeper>>

----------------------------------------------------------------------------
(* The environment: Discord's audit log gains an entry; time passes.       *)

audit_entry_created(g, action, target, user, reason) ==
    /\ Len(audit[g]) < MaxAudit
    /\ audit' = [audit EXCEPT ![g] = <<AuditEntry(action, target, user, reason, now)>> \o @]
    /\ UNCHANGED <<now, ban_debounces, bulk_deletes, censored_messages,
                   autorole_debounces, tasks, modlog, member, banned, config, redis, gatekeeper>>

Tick ==
    /\ now + AuditWindow <= MaxTime
    /\ now' = now + AuditWindow
    /\ UNCHANGED <<ban_debounces, bulk_deletes, censored_messages,
                   autorole_debounces, tasks, modlog, audit, member, banned, config, redis, gatekeeper>>

----------------------------------------------------------------------------
(* Roles: diff, on_member_autorole, on_member_update.                      *)

\* [item for item in xs if item not in ys]
RECURSIVE NotIn(_, _)
NotIn(xs, ys) ==
    IF xs = <<>> THEN <<>>
    ELSE (IF In(Head(xs), ys) THEN <<>> ELSE <<Head(xs)>>) \o NotIn(Tail(xs), ys)

\* xs without its repeats
RECURSIVE Dedup(_)
Dedup(xs) ==
    IF xs = <<>> THEN <<>>
    ELSE LET r == Dedup(SubSeq(xs, 1, Len(xs) - 1))
         IN  IF In(xs[Len(xs)], r) THEN r ELSE Append(r, xs[Len(xs)])

\* (mutant) the additions lose their repeats
diff_additions_once(before, after) ==
    [additions |-> Dedup(NotIn(after, before)), removals |-> NotIn(before, after)]

\* (mutant) a diff of sets: additions and removals lose their repeats
diff_of_sets(before, after) ==
    [additions |-> Dedup(NotIn(after, before)), removals |-> Dedup(NotIn(before, after))]

\* diff(before, after): additions, removals
diff(before, after) ==
    [additions |-> NotIn(after, before), removals |-> NotIn(before, after)]

\* what on_member_autorole is handed as roles_added: a list of roles, or
\* something falsy that is no list when assigning the roles failed
RolesAdded(roles) == [is_list |-> TRUE, roles |-> roles]
AutoroleFailed == [is_list |-> FALSE, roles |-> <<>>]

\* a key of a dict
HasKey(d, k) == k \in DOMAIN d

\* d[k] = v
SetKey(d, k, v) == [x \in (DOMAIN d) \cup {k} |-> IF x = k THEN v ELSE d[x]]

\* (mutant) the key stays in the dict
DelKey_kept(d, k) == d

\* del d[k]
DelKey(d, k) == [x \in (DOMAIN d) \ {k} |-> d[x]]

\* on_member_autorole up to its await
on_member_autorole(g, u, roles_added) ==
    /\ LET msg == (IF roles_added.is_list
                   THEN <<"BOOKMARK", "Automatically assigned roles to">>
                   ELSE <<"CLOSED BOOK", "Failed to automatically assign roles for">>)
                  \o describe(u, <<>>, FALSE, FALSE, FALSE)
                  \o (IF roles_added.roles # <<>>
                      THEN <<", added roles:">> \o roles_added.roles ELSE <<>>)
       IN  tasks' = Append(tasks, NewTask("autorole", g, u, "send", modlog_msg(msg, now),
                                          [NoArg EXCEPT !.after = roles_added.roles]))
    /\ autorole_debounces' = IF roles_added.roles # <<>>
                             THEN SetKey(autorole_debounces, u, roles_added.roles)
                             ELSE autorole_debounces
    /\ UNCHANGED <<now, ban_debounces, bulk_deletes, censored_messages,
                   modlog, audit, member, banned, config, redis, gatekeeper>>

\* a discord.Member as on_member_update sees it
MemberState(nick, name, roles) == [nick |-> nick, name |-> name, roles |-> roles]

\* the attributes in which two states of a member differ
Changed(before, after) == {a \in {"nick", "name", "roles"} : before[a] # after[a]}

\* (mutant) the roles are looked at first
update_kind_roles_first(before, after) ==
    IF before.roles # after.roles THEN "roles"
    ELSE IF before.nick # after.nick THEN "nick"
    ELSE "name"

\* the if / elif / elif of on_member_update: the branch an update takes
update_kind(before, after) ==
    IF before.nick # after.nick THEN "nick"
    ELSE IF before.name # after.name THEN "name"
    ELSE "roles"

\* on_member_update up to its first await: a changed nick is logged, else a
\* changed name, else changed roles put the handler to sleep
on_member_update(g, u, before, after) ==
    /\ before # after
    /\ LET who == describe(u, <<>>, FALSE, FALSE, FALSE) 
           kind == update_kind(before, after)
           arg == [NoArg EXCEPT !.before = before.roles, !.after = after.roles,
                                !.changed = Changed(before, after)]
       IN  tasks' = Append(tasks,
            IF kind = "nick"
            THEN NewTask("nick", g, u, "send",
                         modlog_msg(<<"NAME BADGE", "Nick for">> \o who
                                    \o <<"updated:", before.nick, after.nick>>, now), arg)
            ELSE IF kind = "name"
            THEN NewTask("name", g, u, "send",
                         modlog_msg(<<"NAME BADGE", "Username for">> \o who
                                    \o <<"updated:", before.name, after.name>>, now), arg)
            ELSE NewTask("roles", g, u, "sleep", <<>>, arg))
    /\ UNCHANGED <<now, ban_debounces, bulk_deletes, censored_messages,
                   autorole_debounces, modlog, audit, member, banned, config, redis, gatekeeper>>

\* (mutant) the bounce test without its test for removed roles
autorole_bounce_no_removals(debounces, u, added_roles, removed_roles) ==
    /\ HasKey(debounces, u)
    /\ \A k \in 1..Len(added_roles) : In(added_roles[k], debounces[u])

\* the bounce test of on_member_update
autorole_bounce(debounces, u, added_roles, removed_roles) ==
    /\ HasKey(debounces, u)
    /\ \A k \in 1..Len(added_roles) : In(added_roles[k], debounces[u])
    /\ removed_roles = <<>>

\* on_member_update after asyncio.sleep(0.5): diff the roles; bounce on the
\* autorole debounce (and delete it), else log the differences
update_wakes(i) ==
    /\ i \in 1..Len(tasks)
    /\ tasks[i].pc = "sleep"
    /\ tasks[i].kind = "roles"
    /\ LET t == tasks[i]
           d == diff(t.arg.before, t.arg.after)
       IN  IF autorole_bounce(autorole_debounces, t.subject, d.additions, d.removals)
           THEN /\ autorole_debounces' = DelKey(autorole_debounces, t.subject)
                /\ tasks' = [tasks EXCEPT ![i].pc = "suppressed"]
           ELSE /\ autorole_debounces' = autorole_debounces
                /\ tasks' = [tasks EXCEPT
                     ![i].pc = "send",
                     ![i].seq = Emitted + 1,
                     ![i].arg = [@ EXCEPT !.added = d.additions, !.removed = d.removals],
                     ![i].body = modlog_msg(fmt_before(t.subject) \o <<":">>
                                    \o describe_differences(d.additions, d.removals), now)]
    /\ UNCHANGED <<now, ban_debounces, bulk_deletes, censored_messages,
                   modlog, audit, member, banned, config, redis, gatekeeper>>

----------------------------------------------------------------------------
(* Messages: is_publicly_visible, on_message_censor, on_message_edit,      *)
(* on_raw_bulk_message_delete, on_message_delete.                          *)

\* a channel: everyone is its overwrite for @everyone: "none" (there is
\* none), or what the overwrite says of read_messages: "unset", "allow", "deny"
Channel(id, guild, type, everyone) ==
    [id |-> id, guild |-> guild, type |-> type, everyone |-> everyone]

\* what bot.get_channel gives for a channel it cannot resolve
NoChannel == Channel("", "", "none", "none")

Message(id, channel, author, bot, content) ==
    [id |-> id, channel |-> channel, author |-> author, bot |-> bot, content |-> content]

\* bot.config_is_set(guild, flag)
config_is_set(g, flag) == <<g, flag>> \in config

\* (mutant) an overwrite that leaves read_messages unset hides the channel
is_publicly_visible_allow_only(channel) ==
    IF config_is_set(channel.guild, "log_all_message_events") THEN TRUE
    ELSE channel.everyone = "none" \/ channel.everyone = "allow"

\* is_publicly_visible(bot, channel)
is_publicly_visible(channel) ==
    IF config_is_set(channel.guild, "log_all_message_events") THEN TRUE
    ELSE channel.everyone = "none" \/ channel.everyone # "deny"

\* discord.utils.find(lambda t: t[0].name == '@everyone', channel.overwrites)
\* and the read_messages of what it finds: overwrites is a list of
\* <<name of the target, read_messages>>, read_messages one of "unset",
\* "allow", "deny"; "none" if no target has the name
RECURSIVE everyone_overwrite(_)
everyone_overwrite(overwrites) ==
    IF overwrites = <<>> THEN "none"
    ELSE IF Head(overwrites)[1] = "@everyone" THEN Head(overwrites)[2]
    ELSE everyone_overwrite(Tail(overwrites))

\* the is_public command: tells whether the channel is public
is_public(id, g, overwrites) ==
    /\ LET channel == Channel(id, g, "text", everyone_overwrite(overwrites))
           reply == <<id, IF is_publicly_visible(channel) THEN "is" ELSE "**is not**",
                      "public to @everyone.">>
       IN  tasks' = Append(tasks, NewTask("is_public", g, id, "done", reply,
                                          [NoArg EXCEPT !.before = overwrites,
                                                        !.lookups = <<"log_all_message_events">>]))
    /\ UNCHANGED <<now, ban_debounces, bulk_deletes, censored_messages,
                   autorole_debounces, modlog, audit, member, banned, config, redis, gatekeeper>>

\* truncate(text, desired_length)
truncate(text, desired_length) ==
    IF Len(text) > desired_length
    THEN SubSeq(text, 1, desired_length - 3) \o <<".", ".", ".">>
    ELSE text

\* prevent_codeblock_breakout(text): every backtick gets a zero-width space
\* on either side
RECURSIVE prevent_codeblock_breakout(_)
prevent_codeblock_breakout(text) ==
    IF text = <<>> THEN <<>>
    ELSE (IF Head(text) = "BACKTICK" THEN <<"ZWSP", "BACKTICK", "ZWSP">> ELSE <<Head(text)>>)
         \o prevent_codeblock_breakout(Tail(text))

\* on_message_censor up to its await
on_message_censor(show_content, msg) ==
    /\ censored_messages' = Append(censored_messages, msg.id)
    /\ LET content == IF show_content THEN <<":">> \o msg.content ELSE <<>>
           fmt == <<"KEYCAP", "Message by", msg.author, "in", msg.channel.id,
                    "censored:", "mod_log_description">> \o content
       IN  tasks' = Append(tasks, NewTask("censor", msg.channel.guild, msg.id, "send",
                                          modlog_msg(fmt, now), NoArg))
    /\ UNCHANGED <<now, ban_debounces, bulk_deletes, autorole_debounces,
                   modlog, audit, member, banned, config, redis, gatekeeper>>

\* (mutant) bail only if the author is a bot and the content is unchanged
edit_bails_both(before, after) == before.bot /\ before.content = after.content

\* the first test of on_message_edit: the author was a bot, or the content
\* did not change
edit_bails(before, after) == before.bot \/ before.content = after.content

\* the flags on_message_edit asks the config store for once past its first
\* test: is_publicly_visible asks for one, and only if the channel is
\* visible does the or go on to the second
edit_lookups(before) ==
    <<"log_all_message_events">>
    \o (IF is_publicly_visible(before.channel) THEN <<"modlog_notrack_edits">> ELSE <<>>)

\* on_message_edit up to its send (its config lookups read a store that
\* this model holds fixed)
on_message_edit(before, after) ==
    /\ before.id = after.id
    /\ LET g == before.channel.guild
           m_before == prevent_codeblock_breakout(truncate(before.content, 900))
           m_after == prevent_codeblock_breakout(truncate(after.content, 900))
           fmt == <<"MEMO", "Message by", before.author, "in", before.channel.id,
                    "edited:", "CODE">> \o m_before \o <<"END", "to", "CODE">>
                    \o m_after \o <<"END">>
       IN  tasks' = Append(tasks,
             IF edit_bails(before, after)
             THEN NewTask("edit", g, before.id, "skipped", <<>>,
                          [NoArg EXCEPT !.before = <<before>>, !.after = <<after>>])
             ELSE IF ~is_publicly_visible(before.channel)
                     \/ config_is_set(g, "modlog_notrack_edits")
             THEN NewTask("edit", g, before.id, "skipped", <<>>,
                          [NoArg EXCEPT !.before = <<before>>, !.after = <<after>>,
                                        !.lookups = edit_lookups(before)])
             ELSE NewTask("edit", g, before.id, "send", modlog_msg(fmt, now),
                          [NoArg EXCEPT !.before = <<before>>, !.after = <<after>>,
                                        !.lookups = edit_lookups(before)]))
    /\ UNCHANGED <<now, ban_debounces, bulk_deletes, censored_messages,
                   autorole_debounces, modlog, audit, member, banned, config, redis, gatekeeper>>

\* (mutant) the message IDs are registered once the channel is resolved
on_raw_bulk_message_delete_late(message_ids, channel) ==
    /\ bulk_deletes' = IF channel = NoChannel \/ channel.type # "text"
                       THEN bulk_deletes ELSE bulk_deletes \o message_ids
    /\ tasks' = Append(tasks,
         IF channel = NoChannel \/ channel.type # "text"
         THEN NewTask("bulk", channel.guild, "", "skipped", <<>>,
                      [NoArg EXCEPT !.before = message_ids, !.after = <<channel>>])
         ELSE NewTask("bulk", channel.guild, "", "send",
                      modlog_msg(<<"BIN", ToString(Len(message_ids)),
                                   "message(s) deleted in", channel.id>>, now),
                      [NoArg EXCEPT !.before = message_ids, !.after = <<channel>>]))
    /\ UNCHANGED <<now, ban_debounces, censored_messages, autorole_debounces,
                   modlog, audit, member, banned, config, redis, gatekeeper>>

\* on_raw_bulk_message_delete up to its await; channel is what
\* bot.get_channel(channel_id) gives
on_raw_bulk_message_delete(message_ids, channel) ==
    /\ bulk_deletes' = bulk_deletes \o message_ids
    /\ tasks' = Append(tasks,
         IF channel = NoChannel \/ channel.type # "text"
         THEN NewTask("bulk", channel.guild, "", "skipped", <<>>,
                      [NoArg EXCEPT !.before = message_ids, !.after = <<channel>>])
         ELSE NewTask("bulk", channel.guild, "", "send",
                      modlog_msg(<<"BIN", ToString(Len(message_ids)),
                                   "message(s) deleted in", channel.id>>, now),
                      [NoArg EXCEPT !.before = message_ids, !.after = <<channel>>]))
    /\ UNCHANGED <<now, ban_debounces, censored_messages, autorole_debounces,
                   modlog, audit, member, banned, config, redis, gatekeeper>>

\* on_message_delete up to its first await: only guild text channels
on_message_delete(msg) ==
    /\ tasks' = Append(tasks,
         IF msg.channel.type # "text"
         THEN NewTask("delete", msg.channel.guild, msg.id, "skipped", <<>>,
                      [NoArg EXCEPT !.before = <<msg>>])
         ELSE NewTask("delete", msg.channel.guild, msg.id, "sleep", <<>>,
                      [NoArg EXCEPT !.before = <<msg>>]))
    /\ UNCHANGED <<now, ban_debounces, bulk_deletes, censored_messages,
                   autorole_debounces, modlog, audit, member, banned, config, redis, gatekeeper>>

\* (mutant) the debounce test without the censored messages
delete_bounce_bulk_only(id) == In(id, bulk_deletes)

\* the debounce test of on_message_delete
delete_bounce(id) == In(id, bulk_deletes) \/ In(id, censored_messages)

\* (mutant) the message of a bot is never logged
delete_skips_bot_always(msg, g) == msg.bot

\* the last test of on_message_delete: the author was a bot and the guild
\* is not configured to allow bots
delete_skips_bot(msg, g) == msg.bot /\ ~config_is_set(g, "modlog_filter_allow_bot")

\* on_message_delete after asyncio.sleep(0.5)
delete_wakes(i) ==
    /\ i \in 1..Len(tasks)
    /\ tasks[i].pc = "sleep"
    /\ tasks[i].kind = "delete"
    /\ LET t == tasks[i]
           msg == t.arg.before[1]
           g == t.guild
           content == prevent_codeblock_breakout(truncate(msg.content, 1500))
           fmt == <<"BIN", "Message by", msg.author, "deleted in", msg.channel.id, "CODE">>
                  \o content \o <<"END", "(attachments, embeds">>
       IN  tasks' = [tasks EXCEPT ![i] =
             IF delete_bounce(msg.id)
             THEN [t EXCEPT !.pc = "suppressed"]
             ELSE IF ~is_publicly_visible(msg.channel)
                     \/ config_is_set(g, "modlog_notrack_deletes")
             THEN [t EXCEPT !.pc = "skipped"]
             ELSE IF delete_skips_bot(msg, g)
             THEN [t EXCEPT !.pc = "skipped"]
             ELSE [t EXCEPT !.pc = "send", !.seq = Emitted + 1,
                            !.body = modlog_msg(fmt, now)]]
    /\ UNCHANGED <<now, ban_debounces, bulk_deletes, censored_messages,
                   autorole_debounces, modlog, audit, member, banned, config, redis, gatekeeper>>

----------------------------------------------------------------------------
(* on_member_join, on_guild_emojis_update, on_voice_state_update: handlers *)
(* that log and are done.                                                  *)

\* (mutant) an account is new if it is less than 7 days old
is_new_strict(u, t) == t - CreatedAt(u) < NewWindow

\* the test of on_member_join: the account is at most 7 days old
is_new(u, t) == t - CreatedAt(u) <= NewWindow

\* on_member_join up to its await
on_member_join(g, u) ==
    /\ <<g, u>> \notin member
    /\ member' = member \cup {<<g, u>>}
    /\ LET new == IF is_new(u, now) THEN <<"SQUARED NEW">> ELSE <<>>
           text == <<"INBOX TRAY">> \o new \o describe(u, <<>>, TRUE, FALSE, TRUE)
       IN  tasks' = Append(tasks, NewTask("join", g, u, "send", modlog_msg(text, now), NoArg))
    /\ UNCHANGED <<now, ban_debounces, bulk_deletes, censored_messages,
                   autorole_debounces, modlog, audit, banned, config, redis, gatekeeper>>

\* on_guild_emojis_update up to its await
on_guild_emojis_update(g, before, after) ==
    /\ LET d == diff(before, after)
           added == d.additions
           removed == d.removals
           arg == [NoArg EXCEPT !.before = before, !.after = after,
                                !.added = added, !.removed = removed]
           text == <<"FRAME WITH PICTURE", "Emoji updated:">>
                   \o describe_differences(added, removed)
       IN  tasks' = Append(tasks,
             IF added = <<>> /\ removed = <<>>
             THEN NewTask("emoji", g, "", "skipped", <<>>, arg)
             ELSE NewTask("emoji", g, "", "send", modlog_msg(text, now), arg))
    /\ UNCHANGED <<now, ban_debounces, bulk_deletes, censored_messages,
                   autorole_debounces, modlog, audit, member, banned, config, redis, gatekeeper>>

\* on_voice_state_update up to its await; before and after are the voice
\* channels, "" for no channel
on_voice_state_update(g, u, before, after) ==
    /\ LET who == describe(u, <<>>, FALSE, FALSE, FALSE)
           emoji == "LOUDSPEAKER"
       IN  tasks' = Append(tasks,
             IF before # "" /\ after = ""
             THEN NewTask("voice", g, u, "send",
                          modlog_msg(<<emoji, "OUTBOX">> \o who \o <<"left", before>>, now), NoArg)
             ELSE IF before = "" /\ after # ""
             THEN NewTask("voice", g, u, "send",
                          modlog_msg(<<emoji, "INBOX">> \o who \o <<"joined", after>>, now), NoArg)
             ELSE IF before # after
             THEN NewTask("voice", g, u, "send",
                          modlog_msg(<<emoji, "ARROWS">> \o who
                                     \o <<"moved from", before, "to", after>>, now), NoArg)
             ELSE NewTask("voice", g, u, "skipped", <<>>, NoArg))
    /\ UNCHANGED <<now, ban_debounces, bulk_deletes, censored_messages,
                   autorole_debounces, modlog, audit, member, banned, config, redis, gatekeeper>>

----------------------------------------------------------------------------
(* Gatekeeper: the checks, on_member_join, and the commands.  A stored     *)
(* value is a sequence of characters.  An invocation records in trace what *)
(* it did: <<"check", key>> a check was run, <<"dm", r>> member.send,      *)
(* <<"kick", r>> member.kick, <<"report", what>> report() was called,      *)
(* <<"sent", what>> the broadcast channel took the message, <<"raise", e>> *)
(* an exception left the handler.                                          *)

Digits == <<"0", "1", "2", "3", "4", "5", "6", "7", "8", "9">>

\* the digits after an optional sign
Unsigned(s) == IF s # <<>> /\ s[1] \in {"+", "-"} THEN Tail(s) ELSE s

\* int(s) does not raise ValueError: an optional sign and decimal digits
\* (the values stored here have no whitespace and no underscores)
IsInt(s) == Unsigned(s) # <<>> /\ \A k \in 1..Len(Unsigned(s)) : In(Unsigned(s)[k], Digits)

RECURSIVE DigitsValue(_)
DigitsValue(d) ==
    IF d = <<>> THEN 0
    ELSE 10 * DigitsValue(SubSeq(d, 1, Len(d) - 1))
         + (CHOOSE n \in 0..9 : Digits[n + 1] = d[Len(d)])

\* int(s), for an s that IsInt
int(s) == IF s[1] = "-" THEN 0 - DigitsValue(Unsigned(s)) ELSE DigitsValue(Unsigned(s))

\* re.compile(regex) does not raise re.error.  The patterns here are
\* literal text, or hold a "(" that nothing closes.
Compiles(regex) == ~In("(", regex)

\* regex.search(name), for a literal pattern: the name contains it
Searches(regex, name) ==
    \E k \in 1..(Len(name) + 1) :
        /\ k + Len(regex) - 1 <= Len(name)
        /\ SubSeq(name, k, k + Len(regex) - 1) = regex

\* a discord.Member as the checks see it
GateMember(id, name, default_avatar) ==
    [id |-> id, name |-> name, default_avatar |-> default_avatar]

\* what a check does: returns, raises Block, or raises Report
Pass == [outcome |-> "pass", text |-> ""]
Block(reason) == [outcome |-> "block", text |-> reason]
Report(message) == [outcome |-> "report", text |-> message]

BlockDefaultAvatarCheck(value, m) ==
    IF m.default_avatar THEN Block("Has default avatar") ELSE Pass

\* seconds_on_discord < minimum_required, in deciseconds
MinimumCreationTimeCheck(time, m, t) ==
    IF ~IsInt(time) THEN Report("Invalid minimum creation time")
    ELSE IF t - CreatedAt(m.id) < 10 * int(time)
         THEN Block("Failed minimum creation time check")
         ELSE Pass

BlockAllCheck(value, m) == Block("Blocking all users")

UsernameRegexCheck(regex, m) ==
    IF ~Compiles(regex) THEN Report("username_regex was invalid")
    ELSE IF Searches(regex, m.name) THEN Block("Matched username regex")
         ELSE Pass

CUSTOMIZATION_KEYS == {"block_default_avatar", "minimum_creation_time",
                       "bounce_message", "block_all", "username_regex"}

\* the keys of the checks, in the order of the tuple checks
checks == <<"block_default_avatar", "minimum_creation_time",
            "block_all", "username_regex">>

\* check().check(settings[check.key], member)
run_check(key, value, m, t) ==
    CASE key = "block_default_avatar" -> BlockDefaultAvatarCheck(value, m)
      [] key = "minimum_creation_time" -> MinimumCreationTimeCheck(value, m, t)
      [] key = "block_all" -> BlockAllCheck(value, m)
      [] key = "username_regex" -> UsernameRegexCheck(value, m)

\* the for loop from the at-th check to its next await: the checks it ran,
\* where it goes on from, and what stopped it: a Block, a Report, or the
\* end of the tuple
RECURSIVE run_checks(_, _, _, _)
run_checks(settings, m, at, t) ==
    IF at > Len(checks)
    THEN [at |-> at, ran |-> <<>>, outcome |-> "passed", text |-> "passed"]
    ELSE LET key == checks[at]
             r == run_check(key, settings[key], m, t)
             rest == run_checks(settings, m, at + 1, t)
         IN  IF ~HasKey(settings, key) THEN rest
             ELSE IF r.outcome = "pass"
                  THEN [rest EXCEPT !.ran = <<<<"check", key>>>> \o @]
                  ELSE [at |-> at + 1, ran |-> <<<<"check", key>>>>,
                        outcome |-> r.outcome, text |-> r.text]

\* the redis keys of a guild
Key(g, name) == <<g, name>>

\* an invocation of on_member_join or of a command; pending is the report
\* the invocation is sending, cont where it goes on after the report
Invocation(kind, g, m, channel, pc) ==
    [kind |-> kind, guild |-> g, member |-> m, channel |-> channel, pc |-> pc,
     at |-> 1, settings |-> <<>>, trace |-> <<>>, pending |-> "", cont |-> ""]

NoMember == GateMember("", <<>>, FALSE)

\* report(...) is called
calls_report(s, what, cont) ==
    [s EXCEPT !.pc = "report_get", !.pending = what, !.cont = cont,
              !.trace = Append(@, <<"report", what>>)]

\* on_member_join goes through its checks from the s.at-th on, up to the
\* next await: member.send or member.kick of block(), or redis.get of
\* report()
resume(s, t) ==
    LET r == run_checks(s.settings, s.member, s.at, t)
        ran == [s EXCEPT !.trace = @ \o r.ran, !.at = r.at]
    IN  IF r.outcome = "block"
        THEN [ran EXCEPT !.pc = IF HasKey(s.settings, "bounce_message")
                                THEN "dm" ELSE "kick"]
        ELSE IF r.outcome = "report"
        THEN calls_report(ran, r.text, "chain")
        ELSE calls_report(ran, "passed", "end")

\* report() returns to its caller
report_returns(s, t) ==
    IF s.cont = "chain" THEN resume(s, t) ELSE [s EXCEPT !.pc = "done"]

\* Gatekeeper.on_member_join up to its second await: nothing is done
\* unless the guild's enabled key exists
Gatekeeper_on_member_join(g, m) ==
    /\ gatekeeper' = Append(gatekeeper,
          Invocation("join", g, m, <<>>,
                     IF HasKey(redis, Key(g, "enabled")) THEN "settings" ELSE "off"))
    /\ UNCHANGED <<now, ban_debounces, bulk_deletes, censored_messages,
                   autorole_debounces, tasks, modlog, audit, member, banned,
                   config, redis>>

\* hgetall returns the settings; the checks begin
gets_settings(i) ==
    /\ i \in 1..Len(gatekeeper)
    /\ gatekeeper[i].pc = "settings"
    /\ LET s == gatekeeper[i]
           k == Key(s.guild, "settings")
           settings == IF HasKey(redis, k) THEN redis[k] ELSE <<>>
       IN  gatekeeper' = [gatekeeper EXCEPT ![i] = resume([s EXCEPT !.settings = settings], now)]
    /\ UNCHANGED <<now, ban_debounces, bulk_deletes, censored_messages,
                   autorole_debounces, tasks, modlog, audit, member, banned,
                   config, redis>>

\* block(): member.send(bounce_message) returns or raises Forbidden
member_send_returns(i, ok) ==
    /\ i \in 1..Len(gatekeeper)
    /\ gatekeeper[i].pc = "dm"
    /\ gatekeeper' = [gatekeeper EXCEPT
          ![i].trace = Append(@, <<"dm", IF ok THEN "ok" ELSE "Forbidden">>),
          ![i].pc = "kick"]
    /\ UNCHANGED <<now, ban_debounces, bulk_deletes, censored_messages,
                   autorole_debounces, tasks, modlog, audit, member, banned,
                   config, redis>>

\* block(): member.kick returns or raises Forbidden, and report is called
kick_returns(i, ok) ==
    /\ i \in 1..Len(gatekeeper)
    /\ gatekeeper[i].pc = "kick"
    /\ LET s == [gatekeeper[i] EXCEPT
                   !.trace = Append(@, <<"kick", IF ok THEN "ok" ELSE "Forbidden">>)]
       IN  gatekeeper' = [gatekeeper EXCEPT ![i] =
             calls_report(s, IF ok THEN "Bounced" ELSE "Couldn't kick", "end")]
    /\ UNCHANGED <<now, ban_debounces, bulk_deletes, censored_messages,
                   autorole_debounces, tasks, modlog, audit, member, banned,
                   config, redis>>

\* report(): redis.get returns.  None has no decode (AttributeError) and
\* int() of text that is no number raises ValueError: report catches
\* neither, and nothing in on_member_join does.  found: get_channel knows
\* the channel.
report_gets_channel(i, found) ==
    /\ i \in 1..Len(gatekeeper)
    /\ gatekeeper[i].pc = "report_get"
    /\ LET s == gatekeeper[i]
           k == Key(s.guild, "broadcast_channel")
           raise(e) == [s EXCEPT !.pc = "failed", !.trace = Append(@, <<"raise", e>>)]
       IN  gatekeeper' = [gatekeeper EXCEPT ![i] =
             IF ~HasKey(redis, k) THEN raise("AttributeError")
             ELSE IF ~IsInt(redis[k]) THEN raise("ValueError")
             ELSE IF ~found THEN report_returns(s, now)
             ELSE [s EXCEPT !.pc = "report_send"]]
    /\ UNCHANGED <<now, ban_debounces, bulk_deletes, censored_messages,
                   autorole_debounces, tasks, modlog, audit, member, banned,
                   config, redis>>

\* report(): broadcast_channel.send returns, or raises Forbidden, which
\* report passes over
report_sends(i, ok) ==
    /\ i \in 1..Len(gatekeeper)
    /\ gatekeeper[i].pc = "report_send"
    /\ LET s == gatekeeper[i]
           sent == IF ok THEN [s EXCEPT !.trace = Append(@, <<"sent", s.pending>>)] ELSE s
       IN  gatekeeper' = [gatekeeper EXCEPT ![i] = report_returns(sent, now)]
    /\ UNCHANGED <<now, ban_debounces, bulk_deletes, censored_messages,
                   autorole_debounces, tasks, modlog, audit, member, banned,
                   config, redis>>

\* the stored text of a flag, the default value of the set command
true == <<"t", "r", "u", "e">>

\* the enable command up to its second redis.set; channel is ctx.channel.id
enable(g, channel, kick_members) ==
    /\ IsInt(channel)
    /\ IF kick_members
       THEN /\ redis' = SetKey(redis, Key(g, "enabled"), true)
            /\ gatekeeper' = Append(gatekeeper,
                                    Invocation("enable", g, NoMember, channel, "channel"))
       ELSE /\ redis' = redis
            /\ gatekeeper' = Append(gatekeeper,
                                    Invocation("enable", g, NoMember, channel, "done"))
    /\ UNCHANGED <<now, ban_debounces, bulk_deletes, censored_messages,
                   autorole_debounces, tasks, modlog, audit, member, banned, config>>

\* the enable command sets the broadcast channel
enable_sets_channel(i) ==
    /\ i \in 1..Len(gatekeeper)
    /\ gatekeeper[i].kind = "enable"
    /\ gatekeeper[i].pc = "channel"
    /\ redis' = SetKey(redis, Key(gatekeeper[i].guild, "broadcast_channel"),
                       gatekeeper[i].channel)
    /\ gatekeeper' = [gatekeeper EXCEPT ![i].pc = "done"]
    /\ UNCHANGED <<now, ban_debounces, bulk_deletes, censored_messages,
                   autorole_debounces, tasks, modlog, audit, member, banned, config>>

\* the disable command, confirmed, up to its second redis.delete
disable(g) ==
    /\ redis' = DelKey(redis, Key(g, "enabled"))
    /\ gatekeeper' = Append(gatekeeper, Invocation("disable", g, NoMember, <<>>, "channel"))
    /\ UNCHANGED <<now, ban_debounces, bulk_deletes, censored_messages,
                   autorole_debounces, tasks, modlog, audit, member, banned, config>>

\* the disable command deletes the broadcast channel
disable_deletes_channel(i) ==
    /\ i \in 1..Len(gatekeeper)
    /\ gatekeeper[i].kind = "disable"
    /\ gatekeeper[i].pc = "channel"
    /\ redis' = DelKey(redis, Key(gatekeeper[i].guild, "broadcast_channel"))
    /\ gatekeeper' = [gatekeeper EXCEPT ![i].pc = "done"]
    /\ UNCHANGED <<now, ban_debounces, bulk_deletes, censored_messages,
                   autorole_debounces, tasks, modlog, audit, member, banned, config>>

\* the settings hash of a guild ({} if there is none)
hgetall(g) == IF HasKey(redis, Key(g, "settings")) THEN redis[Key(g, "settings")] ELSE <<>>

\* the set command: hset of a valid key
gk_set(g, key, value) ==
    /\ key \in CUSTOMIZATION_KEYS
    /\ redis' = SetKey(redis, Key(g, "settings"), SetKey(hgetall(g), key, value))
    /\ redis' # redis
    /\ UNCHANGED <<now, ban_debounces, bulk_deletes, censored_messages,
                   autorole_debounces, tasks, modlog, audit, member, banned,
                   config, gatekeeper>>

\* the unset command: hdel (redis drops a hash that becomes empty)
gk_unset(g, key) ==
    /\ HasKey(hgetall(g), key)
    /\ redis' = IF DOMAIN hgetall(g) = {key}
                THEN DelKey(redis, Key(g, "settings"))
                ELSE SetKey(redis, Key(g, "settings"), DelKey(hgetall(g), key))
    /\ UNCHANGED <<now, ban_debounces, bulk_deletes, censored_messages,
                   autorole_debounces, tasks, modlog, audit, member, banned,
                   config, gatekeeper>>

----------------------------------------------------------------------------
(* Specifications.                                                         *)

Init ==
    /\ now = 0
    /\ ban_debounces = <<>>
    /\ bulk_deletes = <<>>
    /\ censored_messages = <<>>
    /\ autorole_debounces = <<>>
    /\ tasks = <<>>
    /\ modlog = [g \in Guilds |-> <<>>]
    /\ audit = [g \in Guilds |-> <<>>]
    /\ member = Guilds \X Users
    /\ banned = {}
    /\ config = {}
    /\ redis = <<>>
    /\ gatekeeper = <<>>

(* The inputs the specifications draw events from. *)
Public == Channel("c1", "g1", "text", "none")
Private == Channel("c2", "g1", "text", "deny")
M1 == Message("m1", Public, "u1", FALSE, <<"h", "i">>)
M2 == Message("m2", Private, "u1", FALSE, <<"p", "w">>)

Plain(roles) == MemberState("", "u1", roles)

\* SpecDebounce: every producer and consumer of a debounce, in two guilds
\* that both have a modlog channel, with an audit log that stays empty and
\* answers every request.
BanArrives == \E g \in Guilds : on_member_ban(g, "u1")
RemoveArrives == \E g \in Guilds : on_member_remove(g, "u1")
AutoroleArrives ==
    \E ra \in {RolesAdded(<<"rA", "rB">>), AutoroleFailed} :
        on_member_autorole("g1", "u1", ra)
UpdateArrives ==
    \/ \E b \in {<<>>, <<"rC">>}, a \in {<<"rA", "rB">>, <<"rC">>} :
          on_member_update("g1", "u1", Plain(b), Plain(a))
    \/ on_member_update("g2", "u1", Plain(<<>>), Plain(<<"rX">>))
CensorArrives == on_message_censor(TRUE, M1)
BulkArrives == on_raw_bulk_message_delete(<<"m1">>, Public)
DeleteArrives == on_message_delete(M1)

LogSent == \E i \in 1..Len(tasks) : log(i, TRUE)
AuditAnswers == \E i \in 1..Len(tasks) : audit_returns(i, "")
UpdateWakes == \E i \in 1..Len(tasks) : update_wakes(i)
DeleteWakes == \E i \in 1..Len(tasks) : delete_wakes(i)

NextDebounce ==
    \/ Len(tasks) < MaxEvents /\ BanArrives
    \/ Len(tasks) < MaxEvents /\ RemoveArrives
    \/ Len(tasks) < MaxEvents /\ AutoroleArrives
    \/ Len(tasks) < MaxEvents /\ UpdateArrives
    \/ Len(tasks) < MaxEvents /\ CensorArrives
    \/ Len(tasks) < MaxEvents /\ BulkArrives
    \/ Len(tasks) < MaxEvents /\ DeleteArrives
    \/ LogSent
    \/ AuditAnswers
    \/ UpdateWakes
    \/ DeleteWakes

SpecDebounce == Init /\ [][NextDebounce]_vars

\* SpecMessages: the message handlers in guild g1, whose config store
\* holds any set of the four flags they read.
MessageFlags == {"log_all_message_events", "modlog_notrack_edits",
                 "modlog_notrack_deletes", "modlog_filter_allow_bot"}

InitMessages ==
    /\ now = 0
    /\ ban_debounces = <<>>
    /\ bulk_deletes = <<>>
    /\ censored_messages = <<>>
    /\ autorole_debounces = <<>>
    /\ tasks = <<>>
    /\ modlog = [g \in Guilds |-> <<>>]
    /\ audit = [g \in Guilds |-> <<>>]
    /\ member = Guilds \X Users
    /\ banned = {}
    /\ config \in SUBSET ({"g1"} \X MessageFlags)
    /\ redis = <<>>
    /\ gatekeeper = <<>>

\* M2 after an edit, a message of a bot, a message of a DM channel
M2Edited == Message("m2", Private, "u1", FALSE, <<"p", "x">>)
M1Edited == Message("m1", Public, "u1", FALSE, <<"h", "BACKTICK">>)
M3 == Message("m3", Public, "bot", TRUE, <<"b">>)
M3Edited == Message("m3", Public, "bot", TRUE, <<"c">>)
DM == Channel("dm", "", "dm", "none")
M4 == Message("m4", DM, "u2", FALSE, <<"d">>)

MsgCensor == 
    /\ Len(tasks) < MaxMessageEvents
    /\ \E show \in BOOLEAN, m \in {M1, M2} : on_message_censor(show, m)
MsgEdit ==
    /\ Len(tasks) < MaxMessageEvents
    /\ \E e \in {<<M1, M1Edited>>, <<M2, M2Edited>>, <<M3, M3>>,
                  <<M3, M3Edited>>, <<M1, M1>>} : on_message_edit(e[1], e[2])
MsgBulk ==
    /\ Len(tasks) < MaxMessageEvents
    /\ \E c \in {Public, NoChannel, DM} : on_raw_bulk_message_delete(<<"m1", "m2">>, c)
MsgDelete ==
    /\ Len(tasks) < MaxMessageEvents
    /\ \E m \in {M1, M2, M3, M4} : on_message_delete(m)

NextMessages == MsgCensor \/ MsgEdit \/ MsgBulk \/ MsgDelete \/ LogSent \/ DeleteWakes

SpecMessages == InitMessages /\ [][NextMessages]_vars

\* SpecAudit: the handlers that call autoformat_responsible, in guild g1
\* and about user u1, with an audit log that gains entries as time passes
\* and requests that may fail.
AuditBan == Len(tasks) < MaxAttributions /\ on_member_ban("g1", "u1")
AuditUnban == Len(tasks) < MaxAttributions /\ on_member_unban("g1", "u1")
AuditRemove == Len(tasks) < MaxAttributions /\ on_member_remove("g1", "u1")
AuditUpdate ==
    /\ Len(tasks) < MaxAttributions
    /\ on_member_update("g1", "u1", Plain(<<"rC">>), Plain(<<"rA">>))

AuditEntryCreated ==
    \E a \in AuditActions, m \in Moderators, r \in Reasons :
        audit_entry_created("g1", a, "u1", m, r)

LogSentNothing == \E i \in 1..Len(tasks) : log(i, FALSE)
AuditForbidden == \E i \in 1..Len(tasks) : audit_returns(i, "Forbidden")
AuditFails == \E i \in 1..Len(tasks) : audit_returns(i, "HTTPException")
EditDone == \E i \in 1..Len(tasks) : edit_returns(i, TRUE)
EditFails == \E i \in 1..Len(tasks) : edit_returns(i, FALSE)

NextAudit ==
    \/ AuditBan \/ AuditUnban \/ AuditRemove \/ AuditUpdate
    \/ AuditEntryCreated \/ Tick
    \/ LogSent \/ LogSentNothing
    \/ AuditAnswers \/ AuditForbidden \/ AuditFails
    \/ EditDone \/ EditFails
    \/ UpdateWakes

SpecAudit == Init /\ [][NextAudit]_vars

\* SpecResponsible: get_responsible on every audit log of up to
\* MaxEntries kick entries aged 0 s, 2 s or 2.1 s: on_member_remove for u1
\* has sent its log message and awaits the audit log.
Ages == {0, AuditWindow, AuditWindow + 1}

KickEntries ==
    {AuditEntry("kick", u, m, r, MaxTime - age) :
        u \in Users, m \in Moderators, r \in Reasons, age \in Ages}

RECURSIVE Lists(_, _)
Lists(S, n) ==
    IF n = 0 THEN {<<>>}
    ELSE Lists(S, n - 1) \cup {Append(l, x) : l \in Lists(S, n - 1), x \in S}

InitResponsible ==
    /\ now = MaxTime
    /\ ban_debounces = <<>>
    /\ bulk_deletes = <<>>
    /\ censored_messages = <<>>
    /\ autorole_debounces = <<>>
    /\ LET text == modlog_msg(format_member_departure("u1", TRUE, <<"left">>,
                                                      "OUTBOX TRAY", MaxTime), MaxTime)
       IN  /\ tasks = <<[NewTask("remove", "g1", "u1", "query", text,
                                 [NoArg EXCEPT !.is_member = TRUE])
                         EXCEPT !.msg = 1]>>
           /\ modlog = [g \in Guilds |-> IF g = "g1" THEN <<NewMessage(text, 1)>> ELSE <<>>]
    /\ audit \in {[g \in Guilds |-> IF g = "g1" THEN l ELSE <<>>] :
                    l \in Lists(KickEntries, MaxEntries)}
    /\ member = (Guilds \X Users) \ {<<"g1", "u1">>}
    /\ banned = {}
    /\ config = {}
    /\ redis = <<>>
    /\ gatekeeper = <<>>

NextResponsible == AuditAnswers \/ EditDone

SpecResponsible == InitResponsible /\ [][NextResponsible]_vars

\* SpecEvents: every handler of the cog, in guild g1, with an audit log
\* that holds a fresh entry of every action about u1, and services that
\* answer every request.
InitEvents ==
    /\ now = 0
    /\ ban_debounces = <<>>
    /\ bulk_deletes = <<>>
    /\ censored_messages = <<>>
    /\ autorole_debounces = <<>>
    /\ tasks = <<>>
    /\ modlog = [g \in Guilds |-> <<>>]
    /\ audit = [g \in Guilds |->
                  IF g = "g1"
                  THEN <<AuditEntry("ban", "u1", "mod", "spam", 0),
                         AuditEntry("unban", "u1", "mod", "spam", 0),
                         AuditEntry("kick", "u1", "mod", "spam", 0),
                         AuditEntry("member_role_update", "u1", "mod", "spam", 0)>>
                  ELSE <<>>]
    /\ member = {<<"g1", "u1">>}
    /\ banned = {}
    /\ config = {}
    /\ redis = <<>>
    /\ gatekeeper = <<>>

VoiceMoves == {<<"", "v1">>, <<"v1", "">>, <<"v1", "v2">>, <<"v1", "v1">>}

EvJoin == Len(tasks) < MaxHandled /\ \E u \in Users : on_member_join("g1", u)
EvVoice ==
    /\ Len(tasks) < MaxHandled
    /\ \E v \in VoiceMoves : on_voice_state_update("g1", "u1", v[1], v[2])
EvEmoji ==
    /\ Len(tasks) < MaxHandled
    /\ on_guild_emojis_update("g1", <<"e1">>, <<"e1", "e2">>)
EvUpdate ==
    /\ Len(tasks) < MaxHandled
    /\ \E after \in {MemberState("nick", "u1", <<>>), MemberState("", "u1b", <<>>),
                      MemberState("", "u1", <<"rA">>)} :
          on_member_update("g1", "u1", Plain(<<>>), after)
EvAutorole ==
    /\ Len(tasks) < MaxHandled
    /\ on_member_autorole("g1", "u1", RolesAdded(<<"rA">>))
EvBan == Len(tasks) < MaxHandled /\ on_member_ban("g1", "u1")
EvUnban == Len(tasks) < MaxHandled /\ on_member_unban("g1", "u1")
EvRemove == Len(tasks) < MaxHandled /\ on_member_remove("g1", "u1")
EvCensor == Len(tasks) < MaxHandled /\ on_message_censor(TRUE, M1)
EvEdit == Len(tasks) < MaxHandled /\ on_message_edit(M1, M1Edited)
EvBulk == Len(tasks) < MaxHandled /\ on_raw_bulk_message_delete(<<"m1">>, Public)
EvDelete == Len(tasks) < MaxHandled /\ on_message_delete(M1)

NextEvents ==
    \/ EvJoin \/ EvVoice \/ EvEmoji \/ EvUpdate \/ EvAutorole
    \/ EvBan \/ EvUnban \/ EvRemove
    \/ EvCensor \/ EvEdit \/ EvBulk \/ EvDelete
    \/ Tick
    \/ LogSent \/ AuditAnswers \/ AuditForbidden \/ EditDone
    \/ UpdateWakes \/ DeleteWakes

SpecEvents == InitEvents /\ [][NextEvents]_vars

\* LiveEvents: SpecEvents with services that answer every request and an
\* event loop that resumes every handler whose await is over.
LiveEvents ==
    /\ SpecEvents
    /\ WF_vars(LogSent)
    /\ WF_vars(AuditAnswers \/ AuditForbidden)
    /\ WF_vars(EditDone)
    /\ WF_vars(UpdateWakes)
    /\ WF_vars(DeleteWakes)

\* SpecVisible: the is_public command on channels with every list of up
\* to MaxOverwrites overwrites, in a guild that has or has not set
\* log_all_message_events.
ReadMessages == {"unset", "allow", "deny"}
Overwrites == ({"@everyone"} \X ReadMessages) \cup {<<"mods", "allow">>}

InitVisible ==
    /\ now = 0
    /\ ban_debounces = <<>>
    /\ bulk_deletes = <<>>
    /\ censored_messages = <<>>
    /\ autorole_debounces = <<>>
    /\ tasks = <<>>
    /\ modlog = [g \in Guilds |-> <<>>]
    /\ audit = [g \in Guilds |-> <<>>]
    /\ member = Guilds \X Users
    /\ banned = {}
    /\ config \in SUBSET {<<"g1", "log_all_message_events">>}
    /\ redis = <<>>
    /\ gatekeeper = <<>>

IsPublic ==
    /\ Len(tasks) < MaxCommands
    /\ \E ows \in Lists(Overwrites, MaxOverwrites) : is_public("c1", "g1", ows)

NextVisible == IsPublic

SpecVisible == InitVisible /\ [][NextVisible]_vars

\* SpecDiff: one emoji update or role update, with every pair of lists of
\* up to MaxLen elements as before and after: repeats included for the
\* emoji, each role at most once in the roles of a member.
Snapshots(S) == Lists(S, MaxLen)
RoleLists(S) == {l \in Snapshots(S) : Dedup(l) = l}

DiffEmoji ==
    /\ Len(tasks) < MaxDiffs
    /\ \E b \in Snapshots({"e1", "e2"}), a \in Snapshots({"e1", "e2"}) :
          on_guild_emojis_update("g1", b, a)
DiffRoles ==
    /\ Len(tasks) < MaxDiffs
    /\ \E b \in RoleLists({"rA", "rB"}), a \in RoleLists({"rA", "rB"}) :
          on_member_update("g1", "u1", Plain(b), Plain(a))

NextDiff == DiffEmoji \/ DiffRoles \/ UpdateWakes \/ LogSent \/ AuditAnswers

SpecDiff == Init /\ [][NextDiff]_vars

\* SpecStale: bans, unbans, joins and departures in guild g1 of u1, a
\* member, and u2, who is not one; Discord lets nobody join who is banned.
InitStale ==
    /\ now = 0
    /\ ban_debounces = <<>>
    /\ bulk_deletes = <<>>
    /\ censored_messages = <<>>
    /\ autorole_debounces = <<>>
    /\ tasks = <<>>
    /\ modlog = [g \in Guilds |-> <<>>]
    /\ audit = [g \in Guilds |-> <<>>]
    /\ member = {<<"g1", "u1">>}
    /\ banned = {}
    /\ config = {}
    /\ redis = <<>>
    /\ gatekeeper = <<>>

StaleBan == Len(tasks) < MaxStale /\ \E u \in Users : on_member_ban("g1", u)
StaleUnban == Len(tasks) < MaxStale /\ \E u \in Users : on_member_unban("g1", u)
StaleJoin ==
    /\ Len(tasks) < MaxStale
    /\ \E u \in Users : <<"g1", u>> \notin banned /\ on_member_join("g1", u)
StaleRemove == Len(tasks) < MaxStale /\ \E u \in Users : on_member_remove("g1", u)

NextStale ==
    \/ StaleBan \/ StaleUnban \/ StaleJoin \/ StaleRemove
    \/ LogSent \/ AuditAnswers

SpecStale == InitStale /\ [][NextStale]_vars

\* SpecAutorole: autorole registrations and member updates of u1 in
\* guild g1: updates of the roles alone, and updates that change the nick
\* or the name, with or without the roles.
Payloads == {<<"rA", "rB">>, <<"rC">>}

RoleUpdates == {<<Plain(<<>>), Plain(<<"rA">>)>>,
                <<Plain(<<"rA">>), Plain(<<"rA", "rB">>)>>,
                <<Plain(<<"rA", "rB">>), Plain(<<"rB", "rA">>)>>,
                <<Plain(<<"rC">>), Plain(<<>>)>>}

MixedUpdates == {<<Plain(<<>>), MemberState(n[1], n[2], r)>> :
                    n \in {<<"nick", "u1">>, <<"", "u1b">>, <<"nick", "u1b">>},
                    r \in {<<>>, <<"rA">>}}

AutoRegisters ==
    /\ Len(tasks) < MaxRoleEvents
    /\ \E roles \in Payloads : on_member_autorole("g1", "u1", RolesAdded(roles))
AutoUpdate ==
    /\ Len(tasks) < MaxRoleEvents
    /\ \E e \in RoleUpdates \cup MixedUpdates : on_member_update("g1", "u1", e[1], e[2])

NextAutorole == AutoRegisters \/ AutoUpdate \/ UpdateWakes \/ LogSent \/ AuditAnswers

SpecAutorole == Init /\ [][NextAutorole]_vars

\* SpecGate: the Gatekeeper cog in guild g1: the commands that turn it on
\* and off and write its settings, and the joins of u1, whose account is
\* 2000 s old, and of u2, an old account with the default avatar.
Joiners == {GateMember("u1", <<"u", "1">>, FALSE), GateMember("u2", <<"u", "2">>, TRUE)}

SettingValues(key) ==
    CASE key = "minimum_creation_time" -> {<<"3", "0", "0", "0">>, <<"a", "b", "c">>}
      [] key = "username_regex" -> {<<"u", "1">>, <<"(">>}
      [] key = "bounce_message" -> {<<"b", "y", "e">>}
      [] OTHER -> {true}

GateJoin ==
    /\ Len(gatekeeper) < MaxGate
    /\ \E m \in Joiners : Gatekeeper_on_member_join("g1", m)
GateEnable ==
    /\ Len(gatekeeper) < MaxGate
    /\ \E kick_members \in BOOLEAN : enable("g1", <<"7">>, kick_members)
GateDisable == Len(gatekeeper) < MaxGate /\ disable("g1")
GateSet ==
    /\ Len(gatekeeper) <= MaxGate
    /\ \E key \in CUSTOMIZATION_KEYS : \E value \in SettingValues(key) :
          gk_set("g1", key, value)
GateUnset ==
    /\ Len(gatekeeper) <= MaxGate
    /\ \E key \in CUSTOMIZATION_KEYS : gk_unset("g1", key)
EnableSetsChannel == \E i \in 1..Len(gatekeeper) : enable_sets_channel(i)
DisableDeletesChannel == \E i \in 1..Len(gatekeeper) : disable_deletes_channel(i)
GetsSettings == \E i \in 1..Len(gatekeeper) : gets_settings(i)
MemberSendReturns == \E i \in 1..Len(gatekeeper) : \E ok \in BOOLEAN : member_send_returns(i, ok)
KickReturns == \E i \in 1..Len(gatekeeper) : \E ok \in BOOLEAN : kick_returns(i, ok)
ReportGetsChannel ==
    \E i \in 1..Len(gatekeeper) : \E found \in BOOLEAN : report_gets_channel(i, found)
ReportSends == \E i \in 1..Len(gatekeeper) : \E ok \in BOOLEAN : report_sends(i, ok)

NextGate ==
    \/ GateJoin \/ GateEnable \/ GateDisable \/ GateSet \/ GateUnset
    \/ EnableSetsChannel \/ DisableDeletesChannel
    \/ GetsSettings \/ MemberSendReturns \/ KickReturns
    \/ ReportGetsChannel \/ ReportSends

SpecGate == Init /\ [][NextGate]_vars

\* The whole: every event of the specifications above, interleaved.
Next == NextDebounce \/ NextMessages \/ NextAudit \/ NextEvents

Spec == Init /\ [][Next]_vars

----------------------------------------------------------------------------
(* Properties of the debounces, checked under SpecDebounce.                *)

TaskIds == 1..Len(tasks)
Elems(lst) == {lst[k] : k \in 1..Len(lst)}

\* the tasks of a handler about a subject, and those a debounce ended
Of(kind, subject) == {i \in TaskIds : tasks[i].kind = kind /\ tasks[i].subject = subject}
\* the autorole tasks that registered a debounce
Registering(subject) == {i \in Of("autorole", subject) : tasks[i].arg.after # <<>>}
Suppressed(kind, subject) == {i \in Of(kind, subject) : tasks[i].pc = "suppressed"}

\* C1: a suppression registered by an event of one guild never suppresses
\* an event of another guild: a suppressed member-remove has a ban of the
\* same user in its own guild before it, a suppressed role update an
\* autorole of the same member in its own guild.
C1_PerGuildIsolation ==
    \A j \in TaskIds :
        tasks[j].pc = "suppressed" =>
            /\ tasks[j].kind = "remove" =>
                 \E i \in 1..(j - 1) : /\ tasks[i].kind = "ban"
                                       /\ tasks[i].subject = tasks[j].subject
                                       /\ tasks[i].guild = tasks[j].guild
            /\ tasks[j].kind = "roles" =>
                 \E i \in Registering(tasks[j].subject) : tasks[i].guild = tasks[j].guild

\* how often a message ID was registered by bulk deletes
RECURSIVE BulkRegistered(_, _)
BulkRegistered(id, n) ==
    IF n = 0 THEN 0
    ELSE BulkRegistered(id, n - 1)
         + (IF tasks[n].kind = "bulk" THEN Count(id, tasks[n].arg.before) ELSE 0)

\* C2 (as claimed): for every reason, a registered suppression suppresses
\* at most one event: no more events are suppressed than suppressions
\* were registered.
C2_OneShotEveryReason ==
    /\ \A u \in Users :
          Cardinality(Suppressed("remove", u)) <= Cardinality(Of("ban", u))
    /\ \A u \in Users :
          Cardinality(Suppressed("roles", u)) <= Cardinality(Registering(u))
    /\ \A m \in {"m1", "m2"} :
          Cardinality(Suppressed("delete", m))
             <= Cardinality(Of("censor", m)) + BulkRegistered(m, Len(tasks))

\* C2 (amended): the ban and autorole debounces are one-shot: a suppressed
\* member-remove takes one occurrence of the user out of ban_debounces, so
\* the list holds the registrations not yet used and no more removes are
\* suppressed than bans registered; no more role updates are suppressed
\* than autoroles registered.  The bulk-delete and censorship lists are
\* never consumed: they hold every registration ever made.
C2_OneShotBanAutorole ==
    /\ \A u \in Users :
          Count(u, ban_debounces)
             = Cardinality(Of("ban", u)) - Cardinality(Suppressed("remove", u))
    /\ \A u \in Users :
          Cardinality(Suppressed("roles", u)) <= Cardinality(Registering(u))
    /\ \A m \in {"m1", "m2"} :
          /\ Count(m, censored_messages) = Cardinality(Of("censor", m))
          /\ Count(m, bulk_deletes) = BulkRegistered(m, Len(tasks))

\* C2 witness: one ban registered, one member-remove suppressed by it, and
\* a later member-remove of the same user that was not suppressed
C2_Witness ==
    \E i, j \in TaskIds :
        /\ i < j
        /\ tasks[i].kind = "remove" /\ tasks[i].pc = "suppressed"
        /\ tasks[j].kind = "remove" /\ tasks[j].pc # "suppressed"
        /\ tasks[i].subject = tasks[j].subject
        /\ Cardinality(Of("ban", tasks[i].subject)) = 1

\* C3: a member-remove handled after the ban handler of the same member
\* (of the same guild) has started is suppressed.
C3_BanThenRemove ==
    \A i, j \in TaskIds :
        (/\ i < j
         /\ tasks[i].kind = "ban" /\ tasks[j].kind = "remove"
         /\ tasks[i].subject = tasks[j].subject
         /\ tasks[i].guild = tasks[j].guild)
        => tasks[j].pc = "suppressed"

\* C4: when a role update for M comes to its bounce test with an autorole
\* debounce {M: P} registered, it is suppressed and the entry deleted if
\* every added role is in P and no role was removed; otherwise it goes on
\* to log the differences and the entry stays.
C4_AutoroleRule ==
    [][\A i \in TaskIds :
         (/\ tasks[i].kind = "roles" /\ tasks[i].pc = "sleep"
          /\ tasks'[i].pc # "sleep"
          /\ HasKey(autorole_debounces, tasks[i].subject))
         => LET u == tasks[i].subject
                added == Elems(tasks[i].arg.after) \ Elems(tasks[i].arg.before)
                removed == Elems(tasks[i].arg.before) \ Elems(tasks[i].arg.after)
            IN  IF added \subseteq Elems(autorole_debounces[u]) /\ removed = {}
                THEN /\ tasks'[i].pc = "suppressed"
                     /\ ~HasKey(autorole_debounces', u)
                     /\ modlog' = modlog
                ELSE /\ tasks'[i].pc = "send"
                     /\ Elems(tasks'[i].arg.added) = added
                     /\ Elems(tasks'[i].arg.removed) = removed
                     /\ \A r \in added \cup removed : In(r, tasks'[i].body)
                     /\ autorole_debounces' = autorole_debounces
      ]_vars

\* C4 witness: with an autorole registered, one role update was suppressed
\* and one that removed a role went on to be logged
C4_Witness ==
    \E i, j \in TaskIds :
        /\ tasks[i].kind = "roles" /\ tasks[i].pc = "suppressed"
        /\ tasks[j].kind = "roles" /\ tasks[j].arg.removed # <<>>
        /\ tasks[j].pc = "done" /\ tasks[j].msg # 0
        /\ Registering(tasks[i].subject) # {}

\* the handlers that register a suppression for the message of id
Producers(id) ==
    {j \in TaskIds : \/ (tasks[j].kind = "censor" /\ tasks[j].subject = id)
                      \/ (tasks[j].kind = "bulk" /\ In(id, tasks[j].arg.before))}

\* C18: on_message_censor and on_raw_bulk_message_delete register their
\* suppression before their first await: whatever they are suspended at,
\* the message IDs are in the lists.  on_message_delete tests the lists
\* only when its sleep is over: if a producer for the message has started
\* by then, before or after the delete event arrived, the delete handler
\* returns without a log message.
C18_DeleteRendezvous ==
    /\ [](\A j \in TaskIds :
            /\ tasks[j].kind = "censor" => In(tasks[j].subject, censored_messages)
            /\ tasks[j].kind = "bulk" =>
                  \A k \in 1..Len(tasks[j].arg.before) : In(tasks[j].arg.before[k], bulk_deletes))
    /\ [](\A i \in TaskIds :
            tasks[i].kind = "delete" /\ tasks[i].pc = "sleep" =>
                tasks[i].seq = 0 /\ tasks[i].msg = 0)
    /\ [][\A i \in TaskIds :
            (/\ tasks[i].kind = "delete" /\ tasks[i].pc = "sleep"
             /\ tasks'[i].pc # "sleep"
             /\ Producers(tasks[i].subject) # {})
            => /\ tasks'[i].pc = "suppressed"
               /\ tasks'[i].seq = 0
               /\ modlog' = modlog]_vars

\* C18 witness: a delete event arrived, a censor event for the same
\* message arrived after it, and the delete handler returned without a log
\* message
C18_Witness ==
    \E i, j \in TaskIds :
        /\ i < j
        /\ tasks[i].kind = "delete" /\ tasks[i].pc = "suppressed"
        /\ tasks[j].kind = "censor" /\ tasks[j].subject = tasks[i].subject
        /\ \A k \in TaskIds : tasks[k].kind # "bulk"

\* the smaller of two numbers
Min(a, b) == IF a < b THEN a ELSE b

\* every ban of u arrived before every member-remove of u
BansFirst(u) == \A i \in Of("ban", u) : \A j \in Of("remove", u) : i < j

\* C25: the test of a debounce and its removal are one step of the handler
\* (no await between them).  A member-remove is suppressed exactly if the
\* member is in ban_debounces when it is handled, and then takes exactly
\* one occurrence out; a role update that bounces deletes the key it
\* tested; no handler fails on a missing entry.  So of N member-removes
\* that follow k bans of the same user, exactly min(N, k) are suppressed,
\* whatever the interleaving.
C25_CheckAndConsume ==
    /\ [][(Len(tasks') = Len(tasks) + 1 /\ tasks'[Len(tasks')].kind = "remove")
          => LET t == tasks'[Len(tasks')]
                 c == Count(t.subject, ban_debounces)
             IN  /\ t.pc = "suppressed" <=> c > 0
                 /\ t.pc \in {"suppressed", "send"}
                 /\ Count(t.subject, ban_debounces') = IF c > 0 THEN c - 1 ELSE 0
                 /\ Len(ban_debounces') = Len(ban_debounces) - (IF c > 0 THEN 1 ELSE 0)]_vars
    /\ [][\A i \in TaskIds :
            (tasks[i].kind = "roles" /\ tasks[i].pc = "sleep" /\ tasks'[i].pc # "sleep")
            => /\ tasks'[i].pc \in {"suppressed", "send"}
               /\ tasks'[i].pc = "suppressed"
                    => /\ HasKey(autorole_debounces, tasks[i].subject)
                       /\ autorole_debounces' = DelKey(autorole_debounces, tasks[i].subject)
               /\ tasks'[i].pc = "send" => autorole_debounces' = autorole_debounces]_vars
    /\ [](\A u \in Users :
            /\ BansFirst(u) =>
                  Cardinality(Suppressed("remove", u))
                     = Min(Cardinality(Of("remove", u)), Cardinality(Of("ban", u)))
            /\ \A i \in Of("remove", u) \cup Of("roles", u) : tasks[i].pc # "failed")

\* C25 witness: one ban of u1, then two member-removes of u1 (one in each
\* guild): exactly one of them was suppressed
C25_Witness ==
    /\ Cardinality(Of("ban", "u1")) = 1
    /\ Cardinality(Of("remove", "u1")) = 2
    /\ BansFirst("u1")
    /\ Cardinality(Suppressed("remove", "u1")) = 1
    /\ ban_debounces = <<>>

----------------------------------------------------------------------------
(* Properties of the ban debounce over time, checked under SpecStale.      *)

\* the bans that made the member-remove j: bans of the same user in the
\* same guild, of a member, with no join of that user since
BansOfDeparture(j) ==
    {i \in 1..(j - 1) :
        /\ tasks[i].kind = "ban"
        /\ tasks[i].subject = tasks[j].subject
        /\ tasks[i].guild = tasks[j].guild
        /\ tasks[i].arg.is_member
        /\ \A k \in (i + 1)..(j - 1) :
              ~(tasks[k].kind = "join" /\ tasks[k].subject = tasks[j].subject)}

\* C26: a member-remove is suppressed only if the member was banned in
\* connection with that same departure; the debounce of a ban that made no
\* member-remove (a ban of a user who was not a member) never suppresses a
\* later, unrelated departure of the same user.
C26_NoStaleSuppression ==
    \A j \in TaskIds :
        (tasks[j].kind = "remove" /\ tasks[j].pc = "suppressed")
        => BansOfDeparture(j) # {}

\* the departure of a banned member is suppressed (the case C26 allows)
RelatedSuppressed ==
    \E j \in TaskIds :
        /\ tasks[j].kind = "remove" /\ tasks[j].pc = "suppressed"
        /\ BansOfDeparture(j) # {}

----------------------------------------------------------------------------
(* Properties of the member updates, checked under SpecAutorole.           *)

\* the handler invocation i wakes from its sleep in this step
Wakes(i) == tasks[i].kind = "roles" /\ tasks[i].pc = "sleep" /\ tasks'[i].pc # "sleep"

\* an event arrives in this step and starts an invocation of this handler
Arrives(kind) == Len(tasks') = Len(tasks) + 1 /\ tasks'[Len(tasks')].kind = kind

\* C27: the autorole entry of a member is consumed whole by the first
\* role update it matches: an update with no removals whose added roles
\* (none at all included) are all in the payload is suppressed and deletes
\* the entire entry, so that the next role update of the member, the
\* remaining roles of the payload included, is logged; a second
\* registration replaces the payload.
C27_AutoroleConsumedWhole ==
    /\ [][\A i \in TaskIds : Wakes(i) =>
            LET u == tasks[i].subject
                d == diff(tasks[i].arg.before, tasks[i].arg.after)
                matches == /\ HasKey(autorole_debounces, u)
                           /\ d.removals = <<>>
                           /\ Elems(d.additions) \subseteq Elems(autorole_debounces[u])
            IN  /\ matches => /\ tasks'[i].pc = "suppressed"
                              /\ ~HasKey(autorole_debounces', u)
                /\ ~matches => /\ tasks'[i].pc = "send"
                               /\ tasks'[i].seq # 0
                               /\ autorole_debounces' = autorole_debounces]_vars
    /\ [][Arrives("autorole") =>
            LET t == tasks'[Len(tasks')]
            IN  /\ HasKey(autorole_debounces', t.subject)
                /\ autorole_debounces'[t.subject] = t.arg.after]_vars
    /\ [](Cardinality(Suppressed("roles", "u1")) <= Cardinality(Of("autorole", "u1")))

\* C27 witness: after one registration of rA and rB, the update that adds
\* rA was suppressed and the update that then adds rB was logged
C27_Witness ==
    /\ Len(tasks) = 3
    /\ tasks[1].kind = "autorole" /\ tasks[1].arg.after = <<"rA", "rB">>
    /\ tasks[2].kind = "roles" /\ tasks[2].arg.after = <<"rA">>
    /\ tasks[2].pc = "suppressed"
    /\ tasks[3].kind = "roles" /\ tasks[3].arg.after = <<"rA", "rB">>
    /\ tasks[3].msg # 0 /\ modlog["g1"][tasks[3].msg].sender = 3
    /\ ~HasKey(autorole_debounces, "u1")

\* the update events
Updates == {i \in TaskIds : tasks[i].kind \in {"nick", "name", "roles"}}

\* C28: a member update emits at most one record, for the nick if the
\* nick changed, else for the name if the name changed, else for the
\* roles; an update that changed the nick or the name logs at once: the
\* roles it changed too are not logged, it does not sleep, and it neither
\* tests nor consumes an autorole debounce.
C28_UpdatePrecedence ==
    /\ [](\A i \in Updates :
            LET t == tasks[i]
            IN  /\ t.kind = "nick" <=> "nick" \in t.arg.changed
                /\ t.kind = "name" <=> ("nick" \notin t.arg.changed /\ "name" \in t.arg.changed)
                /\ t.kind = "roles" <=> t.arg.changed = {"roles"}
                /\ Cardinality({k \in 1..Len(modlog[t.guild]) :
                                    modlog[t.guild][k].sender = i}) <= 1
                /\ t.kind \in {"nick", "name"} =>
                      /\ t.pc \in {"send", "done"}
                      /\ t.seq # 0
                      /\ t.body[3] \in {"Nick for", "Username for"}
                      /\ ~In("Roles for", t.body))
    /\ [][(Arrives("nick") \/ Arrives("name")) =>
             autorole_debounces' = autorole_debounces]_vars
    /\ [][autorole_debounces' # autorole_debounces =>
             \/ Arrives("autorole")
             \/ \E i \in TaskIds : Wakes(i)]_vars

\* C28 witness: an update that changed the nick and added rA, a role of
\* the registered payload, was logged as a nick change, and the debounce
\* is still there
C28_Witness ==
    \E i \in Updates :
        /\ tasks[i].kind = "nick"
        /\ tasks[i].arg.changed = {"nick", "roles"}
        /\ tasks[i].arg.after = <<"rA">>
        /\ tasks[i].pc = "done"
        /\ HasKey(autorole_debounces, "u1")
        /\ In("rA", autorole_debounces["u1"])
        /\ \E j \in 1..(i - 1) : tasks[j].kind = "autorole"

----------------------------------------------------------------------------
(* Properties of the Gatekeeper, checked under SpecGate.                   *)

\* the invocations of Gatekeeper.on_member_join
Joins == {i \in 1..Len(gatekeeper) : gatekeeper[i].kind = "join"}

\* what an invocation did
Did(s) == Elems(s.trace)

\* the checks whose key the settings of the invocation hold
KeysSet(s) == {k \in Elems(checks) : HasKey(s.settings, k)}

\* the check comes before the other in the chain
Before(k1, k2) ==
    \E a, b \in 1..Len(checks) : a < b /\ checks[a] = k1 /\ checks[b] = k2

\* the stored value makes the check skip itself
Malformed(s, k) ==
    \/ k = "minimum_creation_time" /\ ~IsInt(s.settings[k])
    \/ k = "username_regex" /\ ~Compiles(s.settings[k])

\* the check fails the member
Fails(s, k) ==
    \/ k = "block_default_avatar" /\ s.member.default_avatar
    \/ /\ k = "minimum_creation_time"
       /\ IsInt(s.settings[k])
       /\ now - CreatedAt(s.member.id) < 10 * int(s.settings[k])
    \/ k = "block_all"
    \/ /\ k = "username_regex"
       /\ Compiles(s.settings[k])
       /\ Searches(s.settings[k], s.member.name)

\* the checks that are due: set, and no check before them fails the member
Due(s) == {k \in KeysSet(s) : \A k2 \in KeysSet(s) : Before(k2, k) => ~Fails(s, k2)}

\* some check fails the member
Blocked(s) == \E k \in KeysSet(s) : Fails(s, k)

\* a malformed value skips its feature and nothing else, for the
\* invocations that ended in one of the given ways
SkipsMalformed(ends) ==
    \A i \in Joins :
        LET s == gatekeeper[i]
        IN  s.pc \in ends =>
              \A k \in Due(s) :
                 Malformed(s, k) =>
                    /\ <<"check", k>> \in Did(s)
                    /\ \E what \in {"Invalid minimum creation time",
                                       "username_regex was invalid"} :
                          <<"report", what>> \in Did(s)
                    /\ \A k2 \in Due(s) : <<"check", k2>> \in Did(s)
                    /\ Blocked(s) => \E r \in {"ok", "Forbidden"} : <<"kick", r>> \in Did(s)
                    /\ ~Blocked(s) => <<"report", "passed">> \in Did(s)

\* C22: a malformed configuration value is never fatal to the member-join
\* handler: with the broadcast channel missing or no number, a
\* minimum_creation_time that is no number, or a username_regex that does
\* not compile, the handler ends without raising, the feature is skipped,
\* and the remaining checks run.
C22_MalformedNeverFatal ==
    /\ \A i \in Joins : gatekeeper[i].pc # "failed"
    /\ SkipsMalformed({"done", "failed"})

\* what holds of C22: the handlers that ended without raising skipped the
\* malformed check, reported it, and ran the others
MalformedCheckSkipped == SkipsMalformed({"done"})

\* a handler skipped a malformed minimum_creation_time, went on to
\* block_all and kicked the member
MalformedThenBlocked ==
    \E i \in Joins :
        /\ gatekeeper[i].pc = "done"
        /\ <<"report", "Invalid minimum creation time">> \in Did(gatekeeper[i])
        /\ <<"sent", "Invalid minimum creation time">> \in Did(gatekeeper[i])
        /\ <<"check", "block_all">> \in Did(gatekeeper[i])
        /\ <<"kick", "ok">> \in Did(gatekeeper[i])

\* the rule chain, for the invocations that ended in one of the given ways
RuleChain(ends) ==
    \A i \in Joins :
        LET s == gatekeeper[i]
            ran == {k \in Elems(checks) : <<"check", k>> \in Did(s)}
            kicked == \E r \in {"ok", "Forbidden"} : <<"kick", r>> \in Did(s)
        IN  /\ s.pc = "off" => s.trace = <<>>
            /\ \A a, b \in 1..Len(s.trace) :
                  (a < b /\ s.trace[a][1] = "check" /\ s.trace[b][1] = "check")
                  => Before(s.trace[a][2], s.trace[b][2])
            /\ ran \subseteq Due(s)
            /\ kicked => Blocked(s)
            /\ Blocked(s) => <<"report", "passed">> \notin Did(s)
            /\ s.pc \in ends =>
                  /\ ran = Due(s)
                  /\ Blocked(s) => kicked
                  /\ ~Blocked(s) => <<"report", "passed">> \in Did(s)

\* C23: with gatekeeper enabled the checks run in the order default
\* avatar, minimum creation time, block all, username regex, without the
\* checks whose key is unset; at the first check that blocks the member is
\* kicked, no later check runs and the passed report is not sent; a check
\* that reports does not stop the chain; the passed report is sent exactly
\* when no check blocked; with gatekeeper not enabled nothing is evaluated
\* or sent.
C23_RuleChain ==
    /\ [][(Len(gatekeeper') = Len(gatekeeper) + 1 /\ Len(gatekeeper') \in Joins')
          => (gatekeeper'[Len(gatekeeper')].pc = "off"
                <=> ~HasKey(redis, Key(gatekeeper'[Len(gatekeeper')].guild, "enabled")))]_vars
    /\ []RuleChain({"done", "failed"})

\* what holds of C23: the rule chain of the handlers that did not raise
RuleChainUnlessRaised == RuleChain({"done"})

----------------------------------------------------------------------------
(* Properties of the message handlers, checked under SpecMessages.         *)

\* content appears in body
Echoes(body, content) ==
    \E k \in 0..(Len(body) - Len(content)) :
        SubSeq(body, k + 1, k + Len(content)) = content

\* C5: no message of a modlog channel holds the content of a message whose
\* channel is not publicly visible.
C5_PrivateNeverEchoed ==
    \A g \in Guilds : \A k \in 1..Len(modlog[g]) :
        \A m \in {M2, M2Edited} :
            ~is_publicly_visible(m.channel) => ~Echoes(modlog[g][k].content, m.content)

\* the same of the messages that on_message_edit and on_message_delete sent
EditDeleteRespectVisibility ==
    \A g \in Guilds : \A k \in 1..Len(modlog[g]) :
        \A m \in {M2, M2Edited} :
            (/\ ~is_publicly_visible(m.channel)
             /\ tasks[modlog[g][k].sender].kind \in {"edit", "delete"})
            => ~Echoes(modlog[g][k].content, m.content)

\* C20: a message edit is logged if and only if the author is not a bot,
\* the content changed, the channel is publicly visible (the guild logs
\* all message events, or @everyone is not denied read_messages) and the
\* guild has not set modlog_notrack_edits; and an edit by a bot or without
\* a change of content is rejected before any config lookup.
C20_EditAdmission ==
    \A i \in TaskIds :
        LET t == tasks[i]
            before == t.arg.before[1]
            after == t.arg.after[1]
            visible == \/ <<t.guild, "log_all_message_events">> \in config
                       \/ before.channel.everyone # "deny"
        IN  t.kind = "edit" =>
              /\ t.pc \in {"send", "done", "skipped"}
              /\ t.seq # 0 <=> t.pc \in {"send", "done"}
              /\ t.seq # 0 <=> /\ ~before.bot
                               /\ before.content # after.content
                               /\ visible
                               /\ <<t.guild, "modlog_notrack_edits">> \notin config
              /\ (before.bot \/ before.content = after.content) => t.arg.lookups = <<>>

\* C20 witness: an edit was logged, and an edit by a bot that changed the
\* content was rejected without a config lookup
C20_Witness ==
    \E i, j \in TaskIds :
        /\ tasks[i].kind = "edit" /\ tasks[i].pc = "done" /\ tasks[i].msg # 0
        /\ tasks[i].arg.lookups = <<"log_all_message_events", "modlog_notrack_edits">>
        /\ tasks[j].kind = "edit" /\ tasks[j].pc = "skipped"
        /\ tasks[j].arg.before = <<M3>> /\ tasks[j].arg.after = <<M3Edited>>
        /\ tasks[j].arg.lookups = <<>>

\* C21: a message delete is logged if and only if the channel is a guild
\* text channel, the message ID is in neither bulk_deletes nor
\* censored_messages when the sleep is over, the channel is publicly
\* visible, the guild has not set modlog_notrack_deletes, and the author is
\* not a bot or the guild has set modlog_filter_allow_bot.
C21_DeleteAdmission ==
    /\ [](\A i \in TaskIds :
            LET t == tasks[i]
            IN  t.kind = "delete" =>
                  /\ t.arg.before[1].channel.type # "text" => t.pc = "skipped"
                  /\ t.seq # 0 <=> t.pc \in {"send", "done"})
    /\ [][\A i \in TaskIds :
            (tasks[i].kind = "delete" /\ tasks[i].pc = "sleep" /\ tasks'[i].pc # "sleep")
            => LET msg == tasks[i].arg.before[1]
                   g == tasks[i].guild
                   visible == \/ <<g, "log_all_message_events">> \in config
                              \/ msg.channel.everyone # "deny"
               IN  /\ msg.channel.type = "text"
                   /\ tasks'[i].pc = "send"
                        <=> /\ ~In(msg.id, bulk_deletes)
                            /\ ~In(msg.id, censored_messages)
                            /\ visible
                            /\ <<g, "modlog_notrack_deletes">> \notin config
                            /\ (~msg.bot \/ <<g, "modlog_filter_allow_bot">> \in config)
                   /\ tasks'[i].pc # "send" => tasks'[i].pc \in {"suppressed", "skipped"}]_vars

\* C21 witness: the delete of a bot's message was logged, in a guild that
\* allows bots, and the delete of a message in a DM was not
C21_Witness ==
    \E i, j \in TaskIds :
        /\ tasks[i].kind = "delete" /\ tasks[i].arg.before = <<M3>>
        /\ tasks[i].pc = "done" /\ tasks[i].msg # 0
        /\ tasks[j].kind = "delete" /\ tasks[j].arg.before = <<M4>>
        /\ tasks[j].pc = "skipped"

\* the bulk deletes whose channel could not be resolved or is no guild
\* text channel
Unresolved == {i \in TaskIds : /\ tasks[i].kind = "bulk"
                                /\ tasks[i].arg.after[1].type # "text"}

\* C24: a bulk delete whose channel cannot be resolved, or is no guild
\* text channel, returns at once without a log message; its message IDs
\* are in bulk_deletes all the same; and its arrival leaves every other
\* handler and every log message as they were.
C24_BulkUnresolved ==
    /\ [](\A i \in Unresolved :
            /\ tasks[i].pc = "skipped" /\ tasks[i].seq = 0 /\ tasks[i].msg = 0
            /\ \A k \in 1..Len(tasks[i].arg.before) : In(tasks[i].arg.before[k], bulk_deletes)
            /\ \A g \in Guilds : \A k \in 1..Len(modlog[g]) : modlog[g][k].sender # i)
    /\ [][(Len(tasks') = Len(tasks) + 1 /\ Len(tasks') \in Unresolved')
          => /\ \A i \in TaskIds : tasks'[i] = tasks[i]
             /\ modlog' = modlog
             /\ bulk_deletes' = bulk_deletes \o tasks'[Len(tasks')].arg.before
             /\ censored_messages' = censored_messages]_vars

\* C24 witness: a bulk delete with an unresolvable channel arrived while a
\* delete handler for one of its messages slept, and that handler then
\* returned without a log message
C24_Witness ==
    \E i \in TaskIds : \E j \in Unresolved :
        /\ i < j
        /\ tasks[j].arg.after = <<NoChannel>>
        /\ tasks[i].kind = "delete" /\ tasks[i].pc = "suppressed"
        /\ In(tasks[i].subject, tasks[j].arg.before)

----------------------------------------------------------------------------
(* Properties of the attribution, checked under SpecAudit (C9: under       *)
(* SpecResponsible).                                                       *)

Records == {<<g, k>> : g \in Guilds, k \in 1..MaxAttributions}
Sent == {r \in Records : r[2] <= Len(modlog[r[1]])}

\* C6: a log message is edited at most once, and only by the handler that
\* sent it; a message not edited holds what it was sent with.
C6_AmendedAtMostOnce ==
    \A r \in Sent :
        LET m == modlog[r[1]][r[2]]
        IN  /\ m.edits <= 1
            /\ m.edits = 1 => m.editor = m.sender /\ tasks[m.sender].msg = r[2]
            /\ m.edits = 0 => m.editor = 0 /\ m.content = m.original

\* the audit entries about the subject of a task, of the action it asks for
EntriesFor(t) ==
    {e \in Elems(audit[t.guild]) : e.action = ActionOf(t.kind) /\ e.target = t.subject}

\* C6 witness: a log message was amended, with the reason of one audit
\* entry, its handler is done, and the audit log has since gained another
\* entry about the same member
C6_Witness ==
    \E r \in Sent :
        LET m == modlog[r[1]][r[2]]
            first == audit[r[1]][Len(audit[r[1]])]
            newest == audit[r[1]][1]
        IN  /\ m.edits = 1
            /\ tasks[m.sender].pc = "done"
            /\ Len(audit[r[1]]) = 2
            /\ {first, newest} \subseteq EntriesFor(tasks[m.sender])
            /\ first.reason = "spam" /\ newest.reason = NoReason
            /\ In("spam", m.content)

\* C7: a failed audit-log request or a failed edit is swallowed: no handler
\* is left by an exception, and the log message stays as it was sent.
C7_FailuresSwallowed ==
    \A i \in TaskIds :
        tasks[i].kind \in Attributed => tasks[i].pc # "failed"

\* C8: a refused audit-log request counts as nothing found: the handler
\* ends normally without an edit and its log message stays as it was sent;
\* and the audit log is asked only once the log message has been sent.
C8_ForbiddenIsAbsent ==
    \A i \in TaskIds :
        LET t == tasks[i]
        IN  /\ t.qres = "Forbidden" =>
                /\ t.pc = "done"
                /\ t.msg # 0
                /\ modlog[t.guild][t.msg].edits = 0
                /\ modlog[t.guild][t.msg].content = modlog[t.guild][t.msg].original
            /\ (t.pc \in {"query", "edit"} \/ t.qres # "") =>
                /\ t.msg \in 1..Len(modlog[t.guild])
                /\ modlog[t.guild][t.msg].sender = i

\* C8 witness: a handler whose audit-log request was refused is done
C8_Witness ==
    \E i \in TaskIds :
        /\ tasks[i].qres = "Forbidden" /\ tasks[i].pc = "done"
        /\ EntriesFor(tasks[i]) # {}

\* C9: get_responsible accepts the one entry its request returns (the
\* newest of the action) if and only if that entry's target is the
\* queried target and its age is at most 2 seconds; else it finds nothing.
C9_MatchingRule ==
    \A i \in TaskIds :
        LET t == tasks[i]
            kicks == {k \in 1..Len(audit[t.guild]) : audit[t.guild][k].action = "kick"}
            newest == audit[t.guild][CHOOSE k \in kicks : \A j \in kicks : k <= j]
        IN  t.qres \in {"found", "absent"} =>
               (t.qres = "found"
                  <=> /\ kicks # {}
                      /\ newest.target = t.subject
                      /\ now - newest.created_at <= AuditWindow)

\* C9 witness: nothing was found although an older entry about the target
\* is inside the window, the newest entry being about someone else
C9_Witness ==
    /\ tasks[1].qres = "absent"
    /\ Len(audit["g1"]) = 2
    /\ audit["g1"][1].target = "u2"
    /\ audit["g1"][2].target = "u1"
    /\ now - audit["g1"][2].created_at <= AuditWindow

\* the reason phrase of an audit entry
Phrase(e) ==
    IF e.reason = NoReason THEN <<"with no attached reason">>
    ELSE <<"with reason", e.reason>>

HasPhrase(body) == In("with reason", body) \/ In("with no attached reason", body)

\* C10: the amended body of a ban, unban, kick or role-update log message
\* holds the responsible actor and the reason phrase.
C10_ActorAndReason ==
    \A i \in TaskIds :
        tasks[i].qres = "found" =>
            \E e \in EntriesFor(tasks[i]) :
                /\ Echoes(tasks[i].body, <<"by", e.user>>)
                /\ Echoes(tasks[i].body, Phrase(e))

\* what does hold: the amended body of a ban, unban or kick log message
\* holds the responsible actor and the reason phrase of the audit entry;
\* that of a role-update log message holds the actor and no reason phrase.
\* An edit that succeeds puts this body in the log message.
AmendedBodies ==
    \A i \in TaskIds :
        LET t == tasks[i]
        IN  t.qres = "found" =>
              /\ \E e \in EntriesFor(t) :
                    /\ Echoes(t.body, <<"by", e.user>>)
                    /\ IF t.kind = "roles" THEN ~HasPhrase(t.body)
                       ELSE Echoes(t.body, Phrase(e))
              /\ t.pc = "done" => modlog[t.guild][t.msg].content = t.body

\* a ban, unban or kick log message amended with a reason
AmendedWithReason ==
    \E i \in TaskIds :
        /\ tasks[i].kind \in {"ban", "unban", "remove"}
        /\ tasks[i].qres = "found" /\ tasks[i].pc = "done"
        /\ Echoes(modlog[tasks[i].guild][tasks[i].msg].content, <<"with reason", "spam">>)

----------------------------------------------------------------------------
(* Properties of the handlers as a whole, checked under SpecEvents.        *)

\* C11: only the ban, unban, member-remove and role-update handlers ask
\* the audit log and amend: the handler of any other event (join, nick or
\* username change, voice state, emoji update, message edit, delete, bulk
\* delete, censorship, autorole) never awaits an audit-log request or an
\* edit, has no answer of the audit log, and its log message is never edited.
C11_AttributionOnlyForFour ==
    \A i \in TaskIds :
        LET t == tasks[i]
        IN  t.kind \notin {"ban", "unban", "remove", "roles"} =>
              /\ t.pc \notin {"query", "edit"}
              /\ t.qres = ""
              /\ t.msg # 0 => /\ modlog[t.guild][t.msg].edits = 0
                              /\ modlog[t.guild][t.msg].content = modlog[t.guild][t.msg].original

\* C11 witness: the log message of a join is sent and its handler done,
\* while the log message of a ban was amended
C11_Witness ==
    \E i, j \in TaskIds :
        /\ tasks[i].kind = "join" /\ tasks[i].pc = "done" /\ tasks[i].msg # 0
        /\ tasks[j].kind = "ban" /\ tasks[j].pc = "done" /\ tasks[j].qres = "found"
        /\ modlog["g1"][tasks[j].msg].edits = 1

Awaiting == {"roles", "delete", "edit"}

JoinArrives == Len(tasks') = Len(tasks) + 1 /\ tasks'[Len(tasks')].kind = "join"

\* every join calls log() once on arrival, never asks the audit log, and
\* its handler is done with exactly one log message sent, never edited
JoinLoggedOnce ==
    \A i \in TaskIds :
        LET t == tasks[i]
            sent == {k \in 1..Len(modlog[t.guild]) : modlog[t.guild][k].sender = i}
        IN  t.kind = "join" =>
              /\ t.pc \in {"send", "done"} /\ t.seq # 0 /\ t.qres = ""
              /\ Cardinality(sent) = IF t.pc = "done" THEN 1 ELSE 0
              /\ \A k \in sent : /\ modlog[t.guild][k].edits = 0
                                  /\ modlog[t.guild][k].content = t.body

\* C16 (as claimed): every member join emits exactly one log message, with
\* no audit query or amendment, and the message holds the new-account
\* marker if and only if the account is less than 604800 s old when the
\* event is handled.
C16_NewIffUnder ==
    /\ []JoinLoggedOnce
    /\ [][JoinArrives =>
            LET t == tasks'[Len(tasks')]
            IN  In("SQUARED NEW", t.body) <=> now - CreatedAt(t.subject) < NewWindow]_vars

\* C16 (amended): the same, the marker being there if and only if the
\* account is at most 604800 s old: an account of exactly 604800 s is new.
C16_NewIffAtMost ==
    /\ []JoinLoggedOnce
    /\ [][JoinArrives =>
            LET t == tasks'[Len(tasks')]
            IN  In("SQUARED NEW", t.body) <=> now - CreatedAt(t.subject) <= NewWindow]_vars

\* C16 witness: u2, whose account is exactly 604800 s old at time 0 and
\* older after, joined with the marker, and its handler is done
C16_Witness ==
    \E i \in TaskIds :
        /\ tasks[i].kind = "join" /\ tasks[i].subject = "u2"
        /\ In("SQUARED NEW", tasks[i].body)
        /\ tasks[i].pc = "done" /\ tasks[i].msg # 0

\* joins without the marker happen too
JoinedOld ==
    \E i \in TaskIds :
        /\ tasks[i].kind = "join" /\ ~In("SQUARED NEW", tasks[i].body)
        /\ tasks[i].pc = "done"

\* the log message of a task
Record(t) == modlog[t.guild][t.msg]

\* how a handled event has ended: no log message (a debounce or a guard
\* made the handler return), a log message as it was sent, or a log
\* message amended once by its own handler
EndedSuppressed(t) == t.pc \in {"suppressed", "skipped"} /\ t.msg = 0 /\ t.seq = 0
EndedEmitted(t) ==
    /\ t.pc = "done" /\ t.msg # 0 /\ t.qres # "found"
    /\ Record(t).edits = 0 /\ Record(t).content = Record(t).original
EndedAmended(i) ==
    /\ tasks[i].pc = "done" /\ tasks[i].msg # 0 /\ tasks[i].qres = "found"
    /\ Record(tasks[i]).edits = 1 /\ Record(tasks[i]).editor = i

\* C19 (checked under LiveEvents): every handled event comes to an end, as
\* suppressed, emitted or amended; a handler asks the audit log at most
\* once for its log message (an answer once there stays, and the handler
\* no longer awaits a request); and when the answer is nothing found, or
\* a refusal, the handler is done and the log message stays as it was sent.
C19_Terminates ==
    /\ \A n \in 1..MaxHandled :
          (Len(tasks) >= n) ~> (Len(tasks) >= n /\ Ended(tasks[n]))
    /\ [](\A i \in TaskIds :
            Ended(tasks[i]) =>
                EndedSuppressed(tasks[i]) \/ EndedEmitted(tasks[i]) \/ EndedAmended(i))
    /\ [](\A i \in TaskIds :
            /\ tasks[i].qres # "" => tasks[i].pc # "query"
            /\ tasks[i].qres \in {"absent", "Forbidden"} => EndedEmitted(tasks[i]))
    /\ [][\A i \in TaskIds :
            /\ tasks[i].qres # "" => tasks'[i].qres = tasks[i].qres
            /\ Ended(tasks[i]) => tasks'[i] = tasks[i]]_vars

\* C19 witness: every handler has ended, one with its log message amended,
\* one with nothing found in the audit log and its log message as sent
C19_Witness ==
    /\ Len(tasks) = MaxHandled
    /\ \A i \in TaskIds : Ended(tasks[i])
    /\ \E i, j \in TaskIds :
          /\ EndedAmended(i)
          /\ tasks[j].qres = "absent" /\ EndedEmitted(tasks[j])

----------------------------------------------------------------------------
(* Properties of is_publicly_visible, checked under SpecVisible.           *)

\* the overwrites whose target is named @everyone
Everyone(overwrites) == {k \in 1..Len(overwrites) : overwrites[k][1] = "@everyone"}

\* C13: is_publicly_visible is true if and only if the guild has set
\* log_all_message_events, or the channel has no overwrite for @everyone,
\* or that overwrite does not deny read_messages (it allows it or leaves it
\* unset); with the flag set it is true whatever the overwrites.
C13_PubliclyVisible ==
    \A i \in TaskIds :
        LET t == tasks[i]
            ows == t.arg.before
            first == CHOOSE k \in Everyone(ows) : \A j \in Everyone(ows) : k <= j
        IN  t.kind = "is_public" =>
              /\ t.body[2] \in {"is", "**is not**"}
              /\ t.body[2] = "is"
                   <=> \/ <<t.guild, "log_all_message_events">> \in config
                       \/ Everyone(ows) = {}
                       \/ ows[first][2] \in {"allow", "unset"}
              /\ <<t.guild, "log_all_message_events">> \in config => t.body[2] = "is"

\* C13 witness: in a guild that has not set the flag, a channel whose
\* overwrite for @everyone denies read_messages is not public, and one
\* whose overwrite leaves it unset is
C13_Witness ==
    /\ config = {}
    /\ \E i, j \in TaskIds :
          /\ tasks[i].arg.before = <<<<"mods", "allow">>, <<"@everyone", "deny">>>>
          /\ tasks[i].body[2] = "**is not**"
          /\ tasks[j].arg.before = <<<<"@everyone", "unset">>>>
          /\ tasks[j].body[2] = "is"

----------------------------------------------------------------------------
(* Properties of diff and of its callers, checked under SpecDiff.          *)

\* the handlers that have called diff: an emoji update, a role update
\* that went on to log
Diffed == {i \in TaskIds : tasks[i].kind = "emoji"
                            \/ (tasks[i].kind = "roles" /\ tasks[i].seq # 0)}

\* C14: diff is antisymmetric: with diff(A, B) = (added, removed), as the
\* handler got it, diff(B, A) is (removed, added), as sequences, repeats
\* included.
C14_DiffAntisymmetric ==
    \A i \in Diffed :
        LET t == tasks[i]
            back == diff(t.arg.after, t.arg.before)
        IN  /\ back.additions = t.arg.removed
            /\ back.removals = t.arg.added

\* C14 witness: an emoji update whose lists hold repeats, with an addition
\* and a removal
C14_Witness ==
    \E i \in Diffed :
        /\ tasks[i].arg.before = <<"e1", "e1">> /\ tasks[i].arg.after = <<"e2", "e2">>
        /\ tasks[i].arg.added = <<"e2", "e2">> /\ tasks[i].arg.removed = <<"e1", "e1">>

\* the elements of xs that are not in ys, in the order of xs: the k-th of
\* them is the element of xs at the k-th index whose element is not in ys
Kept(xs, ys) == {k \in 1..Len(xs) : xs[k] \notin Elems(ys)}
Nth(S, n) == CHOOSE k \in S : Cardinality({j \in S : j <= k}) = n
IsRest(zs, xs, ys) ==
    /\ Len(zs) = Cardinality(Kept(xs, ys))
    /\ \A n \in 1..Len(zs) : zs[n] = xs[Nth(Kept(xs, ys), n)]

\* C15: diff(before, after) gives as added the elements of after that are
\* not in before, in the order of after, and as removed the elements of
\* before that are not in after, in the order of before; for every pair of
\* lists; and diff(A, A) is two empty lists.
C15_DiffContract ==
    \A i \in Diffed :
        LET t == tasks[i]
        IN  /\ IsRest(t.arg.added, t.arg.after, t.arg.before)
            /\ IsRest(t.arg.removed, t.arg.before, t.arg.after)
            /\ t.arg.before = t.arg.after => t.arg.added = <<>> /\ t.arg.removed = <<>>

\* C15 witness: a role update whose removed roles keep the order of
\* before, logged with them
C15_Witness ==
    \E i \in Diffed :
        /\ tasks[i].arg.before = <<"rB", "rA">> /\ tasks[i].arg.after = <<>>
        /\ tasks[i].arg.added = <<>> /\ tasks[i].arg.removed = <<"rB", "rA">>
        /\ tasks[i].pc = "done" /\ tasks[i].msg # 0

\* a handler whose before and after lists have an empty diff
EmptyDiff(t) ==
    /\ Elems(t.arg.after) \subseteq Elems(t.arg.before)
    /\ Elems(t.arg.before) \subseteq Elems(t.arg.after)

\* C17: an emoji update or role update whose diff has no additions and no
\* removals never calls log(): no log message is sent for it.
C17_EmptyDiffNotLogged ==
    \A i \in TaskIds :
        (tasks[i].kind \in {"emoji", "roles"} /\ EmptyDiff(tasks[i]))
        => tasks[i].seq = 0 /\ tasks[i].msg = 0

\* what does hold: an emoji update with an empty diff is not logged
EmojiEmptyDiffNotLogged ==
    \A i \in TaskIds :
        (tasks[i].kind = "emoji" /\ EmptyDiff(tasks[i]))
        => tasks[i].pc = "skipped" /\ tasks[i].seq = 0 /\ tasks[i].msg = 0

====
